---- MODULE Spec2Model ----
(***************************************************************************)
(* A state-machine model of the non-blocking linenoise line editor         *)
(* (src/example.c, second copy of linenoise.c, lines 1385-2791) together   *)
(* with the host loop of example.c.  One call of linenoiseEdit is one      *)
(* action; the functions it calls are operators over a record `w' holding  *)
(* the whole program state, applied in the order the C code applies them.  *)
(***************************************************************************)
EXTENDS Integers, Sequences, FiniteSets, TLC

VARIABLES
    l_state,          \* struct linenoiseState l_state
    history,          \* the strings history[0 .. history_len-1]
    history_len,      \* size_t history_len
    history_max_len,  \* size_t history_max_len
    history_null,     \* history == NULL (no slot vector allocated yet)
    mlmode,           \* bool mlmode
    probe,            \* which getColumns the build has: "disabled" (second copy as it is,
                      \* with its early goto failed), "second" (the probing code of the
                      \* second copy) or "first" (the getColumns of the first copy)
    hostbuflen,       \* sizeof(line) of the host: the capacity passed to linenoiseEdit
    scenario,         \* the part of the interface the user and the host exercise in this run
    term_q,           \* bytes the terminal has sent and linenoise_getch has not returned yet
    timer,            \* the probe deadline: "idle", "armed" or "elapsed"
    out,              \* bytes passed to linenoise_write by the last call
    nread,            \* number of bytes linenoise_getch handed out in the last call
    ret,              \* value returned by the last call
    ev,               \* what the last call did with a key: "idle" (it handled none), "more",
                      \* "commit", "eof" or "interrupt"
    started,          \* the last call ran lnInitState
    entry,            \* l_state.mode when the last call began
    arg_prompt,       \* the prompt the host passed to the last call
    runaway,          \* the last call ran a loop whose unsigned bound had wrapped below zero
    oom,              \* malloc, calloc and strdup return NULL from now on
    last_rows,        \* rows at the end of the last refreshMultiLine of the last call, else 0
    ub                \* the last call ran into undefined behaviour of the C program

vars == <<l_state, history, history_len, history_max_len, history_null, mlmode,
          probe, hostbuflen, scenario, term_q, timer, out, nread, ret, ev, started,
          entry, arg_prompt, runaway, last_rows, oom, ub>>

(***************************************************************************)
(* Bounds of the model.                                                    *)
(***************************************************************************)
MaxBufLen == 3      \* the host passes a capacity in 2 .. MaxBufLen
WordBufLen == 4     \* the capacity the host passes in the runs that edit words
MaxHistory == 2     \* the host stops adding lines once history_len reaches this
MaxCap == 2         \* largest argument the host gives linenoiseHistorySetMaxLen
MaxTypeAhead == 2   \* keys typed while a probe waits for the start of its reply

(***************************************************************************)
(* Program constants.                                                      *)
(***************************************************************************)
LINENOISE_DEFAULT_HISTORY_MAX_LEN == 100
CUR_POS_BUF_SIZE == 32
SEQ_SIZE == 3
\* size_t and ssize_t wrap at a power of two.  The target's are 32 bits wide ("%u"
\* prints a size_t); the model checker's integers are too, so the model wraps at 2^16,
\* far above every length, count and column the bounds below allow.
SIZE_MOD == 256 * 256
DEFAULT_COLS == 80

CTRL_A == 1
CTRL_B == 2
CTRL_C == 3
CTRL_D == 4
CTRL_E == 5
CTRL_F == 6
CTRL_H == 8
TAB == 9
LF == 10
CTRL_K == 11
CTRL_L == 12
ENTER == 13
CTRL_N == 14
CTRL_P == 16
CTRL_T == 20
CTRL_U == 21
CTRL_W == 23
ESC == 27
BACKSPACE == 127
NUL == 0
SPACE == 32
NOBYTE == 0 - 1     \* linenoise_getch: nothing available

LINENOISE_HISTORY_NEXT == 0
LINENOISE_HISTORY_PREV == 1

\* bytes by their character
ChA == 97
ChB == 98
ChLBracket == 91
ChRBracket == 93
ChSemi == 59
ChR == 82
ChO == 79
ChUpA == 65
ChUpB == 66
ChUpC == 67
ChUpD == 68
ChUpF == 70
ChUpH == 72
ChTilde == 126
Ch0 == 48
Ch3 == 51
Ch9 == 57
ChMinus == 45
ChPlus == 43
ChJunk == 63

Min(a, b) == IF a < b THEN a ELSE b

\* arithmetic of size_t (unsigned, wraps) and the cast to ssize_t
ToSize(x) == x % SIZE_MOD
ToSSize(x) == LET m == x % SIZE_MOD IN IF 2 * m >= SIZE_MOD THEN m - SIZE_MOD ELSE m

\* "%u" / "%d" of a non-negative number, as bytes
RECURSIVE Dec(_)
Dec(n) == IF n < 10 THEN <<Ch0 + n>> ELSE Dec(n \div 10) \o <<Ch0 + (n % 10)>>

(***************************************************************************)
(* The edit buffer is the host's char array of hostbuflen bytes; offset i  *)
(* of the C array is element i+1 of the sequence.                          *)
(***************************************************************************)
BufAt(b, i) == b[i + 1]
BufPut(b, i, c) == [b EXCEPT ![i + 1] = c]
InBuf(b, i) == i >= 0 /\ i < Len(b)

\* strlen(b): offset of the first NUL, or Len(b) when the array holds none
RECURSIVE StrLenFrom(_, _)
StrLenFrom(b, i) == IF i >= Len(b) \/ BufAt(b, i) = NUL THEN i ELSE StrLenFrom(b, i + 1)
StrLen(b) == StrLenFrom(b, 0)
HasNul(b) == StrLen(b) < Len(b)
\* the C string held in the array
CStr(b) == SubSeq(b, 1, StrLen(b))

\* bytes [from, from+n) of the array
Bytes(b, from, n) == SubSeq(b, from + 1, from + n)

\* memmove(b + dst, b + src, n), all offsets inside the array
MemMove(b, dst, src, n) ==
    [i \in 1..Len(b) |->
        IF i - 1 >= dst /\ i - 1 < dst + n THEN b[(i - 1) - dst + src + 1] ELSE b[i]]

\* Bind(LAMBDA x : e, v) is e with x standing for the value v, which is worked out once
Bind(F(_), v) == CHOOSE r \in {F(x) : x \in {v}} : TRUE

Write(w, bytes) == [w EXCEPT !.out = @ \o bytes]
Undefined(w) == [w EXCEPT !.ub = TRUE]

(***************************************************************************)
(* History store.  w.r is the value the function returns.                  *)
(***************************************************************************)
\* linenoiseHistoryAdd without the comparison with the newest entry
linenoiseHistoryAdd_keeps_duplicates(w, line) ==
    IF w.history_max_len = 0 THEN [w EXCEPT !.r = 0]
    ELSE IF w.history_len = w.history_max_len
    THEN [w EXCEPT !.history_null = FALSE, !.history = Append(Tail(@), line), !.r = 1]
    ELSE [w EXCEPT !.history_null = FALSE, !.history = Append(@, line),
                   !.history_len = @ + 1, !.r = 1]

\* a slot of the history that holds NULL, the result of a failed strdup
NullEntry == <<0 - 1>>

linenoiseHistoryAdd(w, line) ==
    IF w.history_max_len = 0 THEN [w EXCEPT !.r = 0]
    ELSE IF w.history_null /\ w.oom THEN [w EXCEPT !.r = 0]
    ELSE IF w.history_len # 0 /\ w.history[w.history_len] = NullEntry THEN Undefined(w)
    ELSE IF w.history_len # 0 /\ w.history[w.history_len] = line
    THEN [w EXCEPT !.history_null = FALSE, !.r = 0]
    ELSE IF w.oom THEN [w EXCEPT !.history_null = FALSE, !.r = 0]
    ELSE IF w.history_len = w.history_max_len
    THEN [w EXCEPT !.history_null = FALSE, !.history = Append(Tail(@), line), !.r = 1]
    ELSE [w EXCEPT !.history_null = FALSE, !.history = Append(@, line),
                   !.history_len = @ + 1, !.r = 1]

\* linenoiseHistorySetMaxLen that keeps the oldest entries
linenoiseHistorySetMaxLen_keeps_oldest(w, n) ==
    IF n < 1 THEN [w EXCEPT !.r = 0]
    ELSE [w EXCEPT
            !.history = IF w.history_null THEN @
                        ELSE SubSeq(@, 1, Min(w.history_len, n)),
            !.history_max_len = n,
            !.history_len = IF @ > n THEN n ELSE @,
            !.r = 1]

linenoiseHistorySetMaxLen(w, n) ==
    IF n < 1 THEN [w EXCEPT !.r = 0]
    ELSE IF ~w.history_null /\ w.oom THEN [w EXCEPT !.r = 0]
    ELSE [w EXCEPT
            !.history = IF w.history_null THEN @
                        ELSE SubSeq(@, w.history_len - Min(w.history_len, n) + 1,
                                    w.history_len),
            !.history_max_len = n,
            !.history_len = IF @ > n THEN n ELSE @,
            !.r = 1]

\* one fgets line of linenoiseHistoryLoad: cut at the first '\r', else at the first '\n'
RECURSIVE IndexOf(_, _, _)
IndexOf(s, c, i) == IF i > Len(s) THEN 0 ELSE IF s[i] = c THEN i ELSE IndexOf(s, c, i + 1)
CutAt(s, p) == IF p # 0 THEN SubSeq(s, 1, p - 1) ELSE s
CutLine(s) == IF IndexOf(s, ENTER, 1) # 0 THEN CutAt(s, IndexOf(s, ENTER, 1))
              ELSE CutAt(s, IndexOf(s, LF, 1))

\* fgets: the bytes up to and including the first '\n'
FgetsLen(f) == IF IndexOf(f, LF, 1) # 0 THEN IndexOf(f, LF, 1) ELSE Len(f)
RECURSIVE linenoiseHistoryLoad(_, _)
linenoiseHistoryLoad(w, f) ==
    IF f = <<>> THEN [w EXCEPT !.r = 0]
    ELSE linenoiseHistoryLoad(linenoiseHistoryAdd(w, CutLine(SubSeq(f, 1, FgetsLen(f)))),
                              SubSeq(f, FgetsLen(f) + 1, Len(f)))

(***************************************************************************)
(* Input source.  linenoise_getch returns the next byte the terminal sent, *)
(* or, when the terminal sent none, the key k (NOBYTE: nothing available). *)
(***************************************************************************)
linenoise_getch(w, k) ==
    IF w.term_q # <<>>
    THEN [w EXCEPT !.term_q = Tail(@), !.nread = @ + 1, !.r = Head(w.term_q)]
    ELSE [w EXCEPT !.nread = IF k >= 0 THEN @ + 1 ELSE @, !.r = k]

(***************************************************************************)
(* Terminal prober.                                                        *)
(***************************************************************************)
IsDigit(b) == b >= Ch0 /\ b <= Ch9
IsSpace(b) == b \in {SPACE, TAB, LF, CTRL_K, CTRL_L, ENTER}

RECURSIVE SkipSpace(_, _)
SkipSpace(s, i) == IF i <= Len(s) /\ IsSpace(s[i]) THEN SkipSpace(s, i + 1) ELSE i

RECURSIVE ScanDigits(_, _, _)
ScanDigits(s, i, acc) ==
    IF i <= Len(s) /\ IsDigit(s[i])
    THEN ScanDigits(s, i + 1, acc * 10 + (s[i] - Ch0))
    ELSE [val |-> acc, next |-> i]

\* the digits of a "%d" conversion that start at position k of s, after the sign
ScanNumber(s, k, neg) ==
    Bind(LAMBDA d : [ok |-> d.next > k, val |-> IF neg THEN 0 - d.val ELSE d.val,
                     next |-> d.next],
         ScanDigits(s, k, 0))

\* the conversion "%d" of sscanf at position i of s
ScanInt(s, i) ==
    Bind(LAMBDA j : IF j <= Len(s) /\ s[j] \in {ChMinus, ChPlus}
                    THEN ScanNumber(s, j + 1, s[j] = ChMinus)
                    ELSE ScanNumber(s, j, FALSE),
         SkipSpace(s, i))

\* sscanf(s, "\x1b[%d;%d", &rows, &cols): the number of conversions and cols
SscanfCursor(s) ==
    IF Len(s) >= 2 /\ s[1] = ESC /\ s[2] = ChLBracket
    THEN Bind(LAMBDA rw :
                 IF ~rw.ok THEN [n |-> 0, cols |-> 0]
                 ELSE IF rw.next <= Len(s) /\ s[rw.next] = ChSemi
                      THEN Bind(LAMBDA cl : IF cl.ok THEN [n |-> 2, cols |-> cl.val]
                                            ELSE [n |-> 1, cols |-> 0],
                                ScanInt(s, rw.next + 1))
                      ELSE [n |-> 1, cols |-> 0],
              ScanInt(s, 3))
    ELSE [n |-> 0, cols |-> 0]

CursorQuery == <<ESC, ChLBracket, 54, 110>>          \* "\x1b[6n"
CursorFarRight == <<ESC, ChLBracket, Ch9, Ch9, Ch9, ChUpC>>  \* "\x1b[999C"

\* the reply that ends with the byte just stored: its column, or -2
ParseReply(g) ==
    Bind(LAMBDA p : IF p.n # 2 THEN [g EXCEPT !.r = 0 - 2] ELSE [g EXCEPT !.r = p.cols],
         SscanfCursor(CStr(g.l.cur_pos_buf)))

\* cur_pos_buf[cur_pos_idx++] = c and what follows
StoreReplyByte(g, c) ==
    IF g.l.cur_pos_idx >= CUR_POS_BUF_SIZE THEN Undefined(g)
    ELSE IF c # ChR /\ g.l.cur_pos_idx + 1 < CUR_POS_BUF_SIZE - 1
    THEN [g EXCEPT !.l.cur_pos_buf = Append(@, c), !.l.cur_pos_idx = @ + 1, !.r = 0 - 1]
    ELSE IF g.l.cur_pos_idx + 1 >= CUR_POS_BUF_SIZE THEN Undefined(g)
    ELSE ParseReply([g EXCEPT !.l.cur_pos_buf = Append(@, c), !.l.cur_pos_idx = @ + 1])

\* \x1b[6n is written, the deadline is set; reply: what the terminal answers to it
SendCursorQuery(w, reply) ==
    [Write(w, CursorQuery) EXCEPT !.l.cur_pos_idx = 0, !.l.cur_pos_buf = <<>>,
                                  !.timer = "armed", !.term_q = @ \o reply, !.r = 0 - 1]

\* getCursorPosition that does not ask whether the deadline has passed
getCursorPosition_no_deadline(w, k, reply) ==
    IF w.l.cur_pos_idx < 0 THEN SendCursorQuery(w, reply)
    ELSE Bind(LAMBDA g :
                 IF g.r < 0 THEN [g EXCEPT !.r = 0 - 1]
                 ELSE IF g.l.cur_pos_idx = 0 /\ g.r # ESC THEN [g EXCEPT !.r = 0 - 1]
                 ELSE StoreReplyByte(g, g.r),
              linenoise_getch(w, k))

getCursorPosition(w, k, reply) ==
    IF w.l.cur_pos_idx < 0 THEN SendCursorQuery(w, reply)
    ELSE Bind(LAMBDA g :
                 IF g.r < 0 THEN [g EXCEPT !.r = IF g.timer = "elapsed" THEN 0 - 2 ELSE 0 - 1]
                 ELSE IF g.l.cur_pos_idx = 0 /\ g.r # ESC THEN [g EXCEPT !.r = 0 - 1]
                 ELSE StoreReplyByte(g, g.r),
              linenoise_getch(w, k))

\* first copy: every byte is stored, and the reply is scanned with "%zu;%zu"
getCursorPosition_first(w, k, reply) ==
    IF w.l.cur_pos_idx < 0 THEN SendCursorQuery(w, reply)
    ELSE Bind(LAMBDA g :
                 IF g.r < 0 THEN [g EXCEPT !.r = IF g.timer = "elapsed" THEN 0 - 2 ELSE 0 - 1]
                 ELSE StoreReplyByte(g, g.r),
              linenoise_getch(w, k))

\* label failed of the second copy
getColumnsFailed(w) ==
    [w EXCEPT !.l.smart_term_connected = FALSE, !.l.cols = DEFAULT_COLS,
              !.l.mode = "ln_init", !.r = 0]

\* label failed of the first copy: cols takes the result of the failed probe
getColumnsFailed_first(w) ==
    [w EXCEPT !.l.smart_term_connected = FALSE, !.l.cols = ToSize(w.r),
              !.l.mode = "ln_init", !.r = 0]

\* RestoreCursor without the assignment ls->cols = result
RestoreCursor_keeps_cols(g) ==
    [(IF ToSSize(ToSize(g.r)) > g.l.cur_pos_initial
      THEN Write(g, <<ESC, ChLBracket>> \o Dec(ToSize(ToSize(g.r) - g.l.cur_pos_initial))
                    \o <<ChUpD>>)
      ELSE g)
        EXCEPT !.l.mode = "ln_init", !.r = 0]

\* ls->cols = result; the cursor goes back to where the probe found it
RestoreCursor(g) ==
    [(IF ToSSize(ToSize(g.r)) > g.l.cur_pos_initial
      THEN Write(g, <<ESC, ChLBracket>> \o Dec(ToSize(ToSize(g.r) - g.l.cur_pos_initial))
                    \o <<ChUpD>>)
      ELSE g)
        EXCEPT !.l.cols = ToSize(g.r), !.l.mode = "ln_init", !.r = 0]

\* the first probe answered: go to the right margin and probe again
StartSecondProbe(g) ==
    [Write(g, CursorFarRight) EXCEPT !.l.smart_term_connected = TRUE,
                                     !.l.cur_pos_initial = g.r,
                                     !.l.cur_pos_idx = 0 - 1,
                                     !.l.mode = "ln_getColumns_2"]

\* case ln_getColumns_2
getColumns2(w, k, reply) ==
    Bind(LAMBDA g : IF g.ub \/ g.r = 0 - 1 THEN g
                    ELSE IF g.r = 0 - 2 THEN getColumnsFailed(g)
                    ELSE RestoreCursor(g),
         getCursorPosition(w, k, reply))

\* case ln_getColumns_1, falling through to ln_getColumns_2
getColumns1(w, k, reply) ==
    Bind(LAMBDA g : IF g.ub \/ g.r = 0 - 1 THEN g
                    ELSE IF g.r = 0 - 2 THEN getColumnsFailed(g)
                    ELSE getColumns2(StartSecondProbe(g), k, reply),
         getCursorPosition(w, k, reply))

getColumns(w, k, reply) ==
    IF w.probe = "disabled" THEN getColumnsFailed(w)
    ELSE IF w.l.mode = "ln_getColumns_2" THEN getColumns2(w, k, reply)
    ELSE getColumns1(IF w.l.mode = "ln_getColumns_1" THEN w
                     ELSE [w EXCEPT !.l.cur_pos_idx = 0 - 1, !.l.mode = "ln_getColumns_1"],
                     k, reply)

getColumns2_first(w, k, reply) ==
    Bind(LAMBDA g : IF g.ub \/ g.r = 0 - 1 THEN g
                    ELSE IF g.r = 0 - 2 THEN getColumnsFailed_first(g)
                    ELSE RestoreCursor(g),
         getCursorPosition_first(w, k, reply))

getColumns1_first(w, k, reply) ==
    Bind(LAMBDA g : IF g.ub \/ g.r = 0 - 1 THEN g
                    ELSE IF g.r = 0 - 2 THEN getColumnsFailed_first(g)
                    ELSE getColumns2_first(StartSecondProbe(g), k, reply),
         getCursorPosition_first(w, k, reply))

getColumns_first(w, k, reply) ==
    IF w.l.mode = "ln_getColumns_2" THEN getColumns2_first(w, k, reply)
    ELSE getColumns1_first(IF w.l.mode = "ln_getColumns_1" THEN w
                           ELSE [w EXCEPT !.l.cur_pos_idx = 0 - 1,
                                          !.l.mode = "ln_getColumns_1"],
                           k, reply)

(***************************************************************************)
(* Renderer.  The append buffer is flushed with one linenoise_write, so    *)
(* the bytes are appended to w.out directly.                               *)
(***************************************************************************)
PROMPT_HDR == <<ESC, ChLBracket, 49, ChSemi, Ch3, 55, ChSemi, 52, Ch9, 109>>  \* "\x1b[1;37;49m"
PROMPT_TLR == <<ESC, ChLBracket, Ch0, 109>>                                 \* "\x1b[0m"
EraseRight == <<ESC, ChLBracket, Ch0, 75>>                                  \* "\x1b[0K"
EraseRowGoUp == <<ENTER, ESC, ChLBracket, Ch0, 75, ESC, ChLBracket, 49, ChUpA>>  \* "\r\x1b[0K\x1b[1A"

\* the host's hints provider: for a line that starts with a space the args template
\* "[a] [b]" and no description, for every other line NULL (the empty sequence)
linenoise_hints(line) ==
    IF line # <<>> /\ line[1] = SPACE
    THEN <<ChLBracket, ChA, ChRBracket, SPACE, ChLBracket, ChB, ChRBracket>>
    ELSE <<>>

\* "\033[<n>;35;49m"
HintColor(n) == <<ESC, ChLBracket, n, ChSemi, Ch3, 53, ChSemi, 52, Ch9, 109>>

\* "while (*hint_ptr && <none of stops> == *hint_ptr) hint_ptr++", from offset p
RECURSIVE HintScan(_, _, _)
HintScan(t, p, stops) ==
    IF p >= Len(t) \/ t[p + 1] \in stops THEN p ELSE HintScan(t, p + 1, stops)

\* "while (arg_id--)": arg_start after arg_id rounds that begin at offset p
RECURSIVE ArgStart(_, _, _)
ArgStart(t, p, arg_id) ==
    IF arg_id = 0 THEN p
    ELSE Bind(LAMBDA q : ArgStart(t, (IF q < Len(t) THEN q + 1 ELSE q), arg_id - 1),
              HintScan(t, p, {ChLBracket}))

\* the hints[0] part of refreshShowHints without the reverse video
ShowHintArgs_never_highlights(t, spaces, abLen) == Bytes(t, 0, abLen)

\* what refreshShowHints appends for hints[0] = t: spaces is the number of spaces in
\* the line, abLen the number of bytes of t that fit
ShowHintArgs(t, spaces, abLen) ==
    IF spaces = 0 THEN Bytes(t, 0, abLen)
    ELSE Bind(LAMBDA arg_start :
                Bind(LAMBDA arg_end :
                       IF arg_start # arg_end
                       THEN Bytes(t, 0, Min(abLen, arg_start))
                                \o HintColor(55)
                                \o Bytes(t, arg_start,
                                         IF abLen < arg_start THEN 0
                                         ELSE IF abLen < arg_end THEN abLen - arg_start
                                         ELSE arg_end - arg_start)
                                \o HintColor(Ch0)
                                \o Bytes(t, arg_end, IF abLen < arg_end THEN 0 ELSE abLen - arg_end)
                       ELSE Bytes(t, 0, abLen),
                     IF arg_start # 0 THEN HintScan(t, arg_start, {SPACE, ChRBracket}) ELSE 0),
              ArgStart(t, 0, spaces))

\* the bytes refreshShowHints appends to the screen update; hints[1] is NULL
refreshShowHints(w, plen) ==
    Bind(LAMBDA cols_avail :
           Bind(LAMBDA t :
                  IF cols_avail <= 0 \/ t = <<>> THEN <<>>
                  ELSE <<SPACE>> \o HintColor(Ch0)
                           \o ShowHintArgs(t, Cardinality({i \in 1..StrLen(w.l.buf) : w.l.buf[i] = SPACE}),
                                           Min(Len(t), cols_avail))
                           \o (IF cols_avail - Min(Len(t), cols_avail) > 0 THEN <<SPACE>> ELSE <<>>)
                           \o PROMPT_TLR,
                linenoise_hints(CStr(w.l.buf))),
         ToSSize(w.l.cols - (plen + w.l.len + 1)))

\* the number of bytes the first loop of refreshSingleLine drops on the left
ScrolledOff(plen, pos, cols) == IF plen + pos >= cols THEN plen + pos - cols + 1 ELSE 0
\* the number of bytes the second loop keeps
Shown(plen, len, cols) == IF plen + len > cols THEN cols - plen ELSE len

\* d: the bytes dropped on the left
SingleLineFrom(w, showHints, plen, d) ==
    IF w.l.len - d < 0 \/ d + Shown(plen, w.l.len - d, w.l.cols) > Len(w.l.buf)
    THEN Undefined(w)
    ELSE Write(w,
               <<ENTER>> \o PROMPT_HDR \o w.l.prompt \o PROMPT_TLR
                   \o Bytes(w.l.buf, d, Shown(plen, w.l.len - d, w.l.cols))
                   \o (IF showHints THEN refreshShowHints(w, plen) ELSE <<>>)
                   \o EraseRight \o <<ENTER, ESC, ChLBracket>> \o Dec(w.l.pos - d + plen)
                   \o <<ChUpC>>)

refreshSingleLine(w, showHints) ==
    \* with plen >= cols the first loop runs pos below zero
    IF Len(w.l.prompt) >= w.l.cols THEN Undefined(w)
    ELSE SingleLineFrom(w, showHints, Len(w.l.prompt),
                        ScrolledOff(Len(w.l.prompt), w.l.pos, w.l.cols))

RECURSIVE Repeat(_, _)
Repeat(s, n) == IF n <= 0 THEN <<>> ELSE s \o Repeat(s, n - 1)

CursorDown(n) == IF n > 0 THEN <<ESC, ChLBracket>> \o Dec(n) \o <<ChUpB>> ELSE <<>>
CursorUp(n) == IF n > 0 THEN <<ESC, ChLBracket>> \o Dec(n) \o <<ChUpA>> ELSE <<>>
CursorToColumn(col) ==
    IF col # 0 THEN <<ENTER, ESC, ChLBracket>> \o Dec(col) \o <<ChUpC>> ELSE <<ENTER>>

\* rows, rpos: the rows of the line and the row of the old cursor; old_rows: l->maxrows;
\* atEnd: the cursor is at the end of the line, on the last column of a row
MultiLineRows(w, showHints, plen, rows, rpos, old_rows, atEnd) ==
    [Write(w,
           CursorDown(ToSize(old_rows - rpos))
               \o (IF 2 * ToSize(old_rows - 1) >= SIZE_MOD THEN <<>>
                   ELSE Repeat(EraseRowGoUp, ToSize(old_rows - 1)))
               \o <<ENTER>> \o EraseRight
               \o PROMPT_HDR \o w.l.prompt \o PROMPT_TLR
               \o Bytes(w.l.buf, 0, w.l.len)
               \o (IF showHints THEN refreshShowHints(w, plen) ELSE <<>>)
               \o (IF atEnd THEN <<LF, ENTER>> ELSE <<>>)
               \o CursorUp(ToSize((IF atEnd THEN rows + 1 ELSE rows)
                                  - (ToSize(plen + w.l.pos + w.l.cols) \div w.l.cols)))
               \o CursorToColumn(ToSize(plen + w.l.pos) % w.l.cols))
        EXCEPT !.l.maxrows = IF (IF atEnd THEN rows + 1 ELSE rows) > old_rows
                             THEN (IF atEnd THEN rows + 1 ELSE rows) ELSE old_rows,
               !.l.oldpos = w.l.pos,
               !.rows = IF atEnd THEN rows + 1 ELSE rows,
               \* the loop "for (j = 0; j < old_rows - 1; j++)" with old_rows = 0
               !.runaway = @ \/ 2 * ToSize(old_rows - 1) >= SIZE_MOD]

\* refreshMultiLine that gives the cursor no row of its own at the end of a full row
refreshMultiLine_no_cursor_row(w, showHints) ==
    IF w.l.cols = 0 \/ w.l.len > Len(w.l.buf) THEN Undefined(w)
    ELSE MultiLineRows(w, showHints, Len(w.l.prompt),
                       ToSize(Len(w.l.prompt) + w.l.len + w.l.cols - 1) \div w.l.cols,
                       ToSize(Len(w.l.prompt) + w.l.oldpos + w.l.cols) \div w.l.cols,
                       w.l.maxrows,
                       FALSE)

refreshMultiLine(w, showHints) ==
    IF w.l.cols = 0 \/ w.l.len > Len(w.l.buf) THEN Undefined(w)
    ELSE MultiLineRows(w, showHints, Len(w.l.prompt),
                       ToSize(Len(w.l.prompt) + w.l.len + w.l.cols - 1) \div w.l.cols,
                       ToSize(Len(w.l.prompt) + w.l.oldpos + w.l.cols) \div w.l.cols,
                       w.l.maxrows,
                       w.l.pos # 0 /\ w.l.pos = w.l.len
                           /\ ToSize(w.l.pos + Len(w.l.prompt)) % w.l.cols = 0)

refreshLine(w) ==
    IF w.ub THEN w
    ELSE IF w.mlmode THEN refreshMultiLine(w, TRUE) ELSE refreshSingleLine(w, TRUE)

refreshLineNoHints(w) ==
    IF w.ub THEN w
    ELSE IF w.mlmode THEN refreshMultiLine(w, FALSE) ELSE refreshSingleLine(w, FALSE)

(***************************************************************************)
(* Edit operations.                                                        *)
(***************************************************************************)
\* linenoiseEditInsert without the memmove that makes room at the cursor
linenoiseEditInsert_no_shift(w, c) ==
    IF w.l.len < w.l.buflen
    THEN IF w.l.pos > w.l.len \/ ~InBuf(w.l.buf, w.l.len + 1) THEN Undefined(w)
         ELSE refreshLine([w EXCEPT
                !.l.buf = BufPut(BufPut(@, w.l.pos, c), w.l.len + 1, NUL),
                !.l.pos = @ + 1, !.l.len = @ + 1, !.r = 0])
    ELSE [w EXCEPT !.r = 0]

linenoiseEditInsert(w, c) ==
    IF w.l.len < w.l.buflen
    THEN IF w.l.pos > w.l.len \/ ~InBuf(w.l.buf, w.l.len + 1) THEN Undefined(w)
         ELSE refreshLine([w EXCEPT
                !.l.buf = BufPut(BufPut((IF w.l.len = w.l.pos THEN @
                                         ELSE MemMove(@, w.l.pos + 1, w.l.pos,
                                                      w.l.len - w.l.pos)),
                                        w.l.pos, c),
                                 w.l.len + 1, NUL),
                !.l.pos = @ + 1, !.l.len = @ + 1, !.r = 0])
    ELSE [w EXCEPT !.r = 0]

linenoiseEditMoveLeft(w) ==
    IF w.l.pos > 0 THEN refreshLine([w EXCEPT !.l.pos = @ - 1]) ELSE w

linenoiseEditMoveRight(w) ==
    IF w.l.pos # w.l.len THEN refreshLine([w EXCEPT !.l.pos = ToSize(@ + 1)]) ELSE w

linenoiseEditMoveHome(w) ==
    IF w.l.pos # 0 THEN refreshLine([w EXCEPT !.l.pos = 0]) ELSE w

linenoiseEditMoveEnd(w) ==
    IF w.l.pos # w.l.len THEN refreshLine([w EXCEPT !.l.pos = w.l.len]) ELSE w

\* strncpy(buf, s, n); buf[n - 1] = '\0'
StrNCpyTerminated(b, s, n) ==
    [i \in 1..Len(b) |->
        IF i > n THEN b[i]
        ELSE IF i = n THEN NUL
        ELSE IF i <= Len(s) THEN s[i] ELSE NUL]

\* the entry at history_index idx is copied into the buffer and shown
ShowHistoryEntry(w, idx) ==
    IF w.l.buflen < 1 \/ w.l.buflen > Len(w.l.buf)
        \/ w.history[w.history_len - idx] = NullEntry
    THEN Undefined(w)
    ELSE refreshLine([w EXCEPT
            !.l.history_index = idx,
            !.l.buf = StrNCpyTerminated(@, w.history[w.history_len - idx], w.l.buflen),
            !.l.len = StrLen(StrNCpyTerminated(w.l.buf, w.history[w.history_len - idx],
                                               w.l.buflen)),
            !.l.pos = StrLen(StrNCpyTerminated(w.l.buf, w.history[w.history_len - idx],
                                               w.l.buflen))])

\* idx: history_index after the step in direction dir
HistoryMoveTo(w, idx) ==
    IF idx < 0 THEN [w EXCEPT !.l.history_index = 0]
    ELSE IF idx >= w.history_len THEN [w EXCEPT !.l.history_index = w.history_len - 1]
    ELSE ShowHistoryEntry(w, idx)

linenoiseEditHistoryNext(w, dir) ==
    IF w.history_len > 1
    THEN IF ToSize(w.history_len - 1 - w.l.history_index) >= w.history_len
            \/ ~HasNul(w.l.buf)
         THEN Undefined(w)
         ELSE HistoryMoveTo(
                [w EXCEPT !.history[ToSize(w.history_len - 1 - w.l.history_index) + 1] =
                              IF w.oom THEN NullEntry ELSE CStr(w.l.buf)],
                w.l.history_index + (IF dir = LINENOISE_HISTORY_PREV THEN 1 ELSE 0 - 1))
    ELSE w

linenoiseEditDelete(w) ==
    IF w.l.len > 0 /\ w.l.pos < w.l.len
    THEN IF w.l.len > Len(w.l.buf) THEN Undefined(w)
         ELSE refreshLine([w EXCEPT
                  !.l.buf = BufPut(MemMove(@, w.l.pos, w.l.pos + 1, w.l.len - w.l.pos - 1),
                                   w.l.len - 1, NUL),
                  !.l.len = @ - 1])
    ELSE w

linenoiseEditBackspace(w) ==
    IF w.l.pos > 0 /\ w.l.len > 0
    THEN IF w.l.pos > w.l.len \/ w.l.len > Len(w.l.buf) THEN Undefined(w)
         ELSE refreshLine([w EXCEPT
                  !.l.buf = BufPut(MemMove(@, w.l.pos - 1, w.l.pos, w.l.len - w.l.pos),
                                   w.l.len - 1, NUL),
                  !.l.pos = @ - 1, !.l.len = @ - 1])
    ELSE w

\* the offset the two scans of linenoiseEditDeletePrevWord stop at
RECURSIVE SkipLeft(_, _, _)
SkipLeft(b, p, spaces) ==
    IF p > 0 /\ ((BufAt(b, p - 1) = SPACE) = spaces) THEN SkipLeft(b, p - 1, spaces) ELSE p

\* pos: where the deleted word begins
DeleteBack(w, pos) ==
    refreshLine([w EXCEPT
        !.l.buf = MemMove(@, pos, w.l.pos, w.l.len - w.l.pos + 1),
        !.l.pos = pos, !.l.len = @ - (w.l.pos - pos)])

\* linenoiseEditDeletePrevWord without the scan over the spaces left of the cursor
linenoiseEditDeletePrevWord_keeps_spaces(w) ==
    IF w.l.pos > Len(w.l.buf) \/ w.l.len >= Len(w.l.buf) \/ w.l.pos > w.l.len
    THEN Undefined(w)
    ELSE DeleteBack(w, SkipLeft(w.l.buf, w.l.pos, FALSE))

linenoiseEditDeletePrevWord(w) ==
    IF w.l.pos > Len(w.l.buf) \/ w.l.len >= Len(w.l.buf) \/ w.l.pos > w.l.len
    THEN Undefined(w)
    ELSE DeleteBack(w, SkipLeft(w.l.buf, SkipLeft(w.l.buf, w.l.pos, TRUE), FALSE))

(***************************************************************************)
(* Engine state machine.                                                   *)
(***************************************************************************)
\* the prompt goes out, decorated on a smart terminal
WritePrompt(w, prompt) ==
    IF w.l.smart_term_connected THEN Write(w, PROMPT_HDR \o prompt \o PROMPT_TLR)
    ELSE Write(w, prompt)

lnInitState(w, buflen, prompt) ==
    [WritePrompt(linenoiseHistoryAdd(
                    [w EXCEPT !.l.buflen = buflen - 1,
                              !.l.prompt = prompt, !.l.plen = Len(prompt),
                              !.l.oldpos = 0, !.l.pos = 0, !.l.len = 0, !.l.maxrows = 0,
                              !.l.history_index = 0,
                              !.l.buf = BufPut(@, 0, NUL)],
                    <<>>),
                 prompt)
        EXCEPT !.l.mode = "ln_read_regular", !.started = TRUE]

\* lnRestartState that sends every terminal back to the prober
lnRestartState_always_probes(w) == [w EXCEPT !.l.mode = "ln_getColumns"]

lnRestartState(w) ==
    [w EXCEPT !.l.mode = IF w.l.smart_term_connected THEN "ln_getColumns" ELSE "ln_init"]

linenoiseClearScreen(w) ==
    [Write(w, <<ESC, ChLBracket, ChUpH, ESC, ChLBracket, 50, 74>>) EXCEPT
        !.l.mode = "ln_getColumns"]

\* history_len--; free(history[history_len]);
HistoryPop(w) ==
    IF w.history_len = 0
    THEN Undefined([w EXCEPT !.history_len = ToSize(0 - 1)])
    ELSE [w EXCEPT !.history_len = @ - 1, !.history = SubSeq(@, 1, Len(@) - 1)]

\* the loop of lnShowCompletion: the next candidate that differs from the line
RECURSIVE NextShown(_, _, _)
NextShown(str, lc, idx) ==
    IF idx < Len(lc) /\ str = lc[idx + 1]
    THEN NextShown(str, lc, (idx + 1) % (Len(lc) + 1))
    ELSE idx

\* candidate idx is shown in place of the line; the line itself stays as it is
\* lnShowCompletion that leaves the candidate it showed in the edit buffer
ShowCandidate_keeps_candidate(w, idx) ==
    refreshLine(IF idx < Len(w.l.lc)
                THEN [w EXCEPT !.l.completion_idx = idx,
                               !.l.len = Len(w.l.lc[idx + 1]),
                               !.l.pos = Len(w.l.lc[idx + 1]),
                               !.l.buf = w.l.lc[idx + 1] \o <<NUL>>]
                ELSE [w EXCEPT !.l.completion_idx = idx])

ShowCandidate(w, idx) ==
    [refreshLine(IF idx < Len(w.l.lc)
                 THEN [w EXCEPT !.l.completion_idx = idx,
                                !.l.len = Len(w.l.lc[idx + 1]),
                                !.l.pos = Len(w.l.lc[idx + 1]),
                                !.l.buf = w.l.lc[idx + 1] \o <<NUL>>]
                 ELSE [w EXCEPT !.l.completion_idx = idx])
        EXCEPT !.l.len = w.l.len, !.l.pos = w.l.pos, !.l.buf = w.l.buf]

lnShowCompletion(w) ==
    IF ~HasNul(w.l.buf) THEN Undefined(w)
    ELSE ShowCandidate(w, NextShown(CStr(w.l.buf), w.l.lc, w.l.completion_idx))

\* cands: what the host's linenoise_completion adds for the current line
completeLine(w, cands) ==
    IF Len(cands) = 0 THEN [w EXCEPT !.l.lc = <<>>]
    ELSE lnShowCompletion([w EXCEPT !.l.lc = cands, !.l.completion_idx = 0,
                                    !.l.mode = "ln_completion"])

\* the call got a key byte; the branches that end a session overwrite the mark
KeySeen(w) == [w EXCEPT !.ev = "more"]

\* return -1 of the key handlers: the line is not finished
ReturnMore(w) == [w EXCEPT !.r = 0 - 1]
\* case ENTER returning the length with the terminating NUL counted
ReturnCommitted_counts_nul(w) == [w EXCEPT !.r = w.l.len + 1, !.ev = "commit"]
\* return (int)l->len of case ENTER
ReturnCommitted(w) == [w EXCEPT !.r = w.l.len, !.ev = "commit"]
\* return -2 of case CTRL_D
ReturnEof(w) == [w EXCEPT !.r = 0 - 2, !.ev = "eof"]
\* return -1 of case CTRL_C
ReturnInterrupt(w) == [w EXCEPT !.r = 0 - 1, !.ev = "interrupt"]

\* case ENTER, after the scratch entry is gone
CommitLine(w) ==
    IF w.ub THEN w
    ELSE ReturnCommitted(lnRestartState(refreshLineNoHints(
            IF w.mlmode THEN linenoiseEditMoveEnd(w) ELSE w)))

\* case CTRL_T with l->pos++ done whatever the cursor position
Transpose_always_advances(w) ==
    IF w.l.pos > 0 /\ w.l.pos < w.l.len
    THEN IF w.l.pos >= Len(w.l.buf) THEN Undefined(w)
         ELSE refreshLine([w EXCEPT
                  !.l.buf = BufPut(BufPut(@, w.l.pos - 1, BufAt(@, w.l.pos)),
                                   w.l.pos, BufAt(@, w.l.pos - 1)),
                  !.l.pos = @ + 1])
    ELSE w

\* case CTRL_T
Transpose(w) ==
    IF w.l.pos > 0 /\ w.l.pos < w.l.len
    THEN IF w.l.pos >= Len(w.l.buf) THEN Undefined(w)
         ELSE refreshLine([w EXCEPT
                  !.l.buf = BufPut(BufPut(@, w.l.pos - 1, BufAt(@, w.l.pos)),
                                   w.l.pos, BufAt(@, w.l.pos - 1)),
                  !.l.pos = IF w.l.pos # w.l.len - 1 THEN @ + 1 ELSE @])
    ELSE w

lnHandleCharacter(w, c, cands) ==
    IF c = TAB THEN ReturnMore(completeLine(w, cands))
    ELSE IF c = ENTER THEN CommitLine(HistoryPop(w))
    ELSE IF c = CTRL_C THEN ReturnInterrupt(w)
    ELSE IF c = BACKSPACE \/ c = CTRL_H THEN ReturnMore(linenoiseEditBackspace(w))
    ELSE IF c = CTRL_D THEN
        IF w.l.len > 0 THEN ReturnMore(linenoiseEditDelete(w))
        ELSE ReturnEof(HistoryPop(w))
    ELSE IF c = CTRL_T THEN ReturnMore(Transpose(w))
    ELSE IF c = CTRL_B THEN ReturnMore(linenoiseEditMoveLeft(w))
    ELSE IF c = CTRL_F THEN ReturnMore(linenoiseEditMoveRight(w))
    ELSE IF c = CTRL_P \/ c = CTRL_N
         THEN ReturnMore(linenoiseEditHistoryNext(w,
                  IF c = CTRL_P THEN LINENOISE_HISTORY_PREV ELSE LINENOISE_HISTORY_NEXT))
    ELSE IF c = ESC
         THEN ReturnMore([w EXCEPT !.l.seq = <<>>, !.l.seq_idx = 0, !.l.mode = "ln_read_esc"])
    ELSE IF c = CTRL_U
         THEN ReturnMore(refreshLine([w EXCEPT !.l.buf = BufPut(@, 0, NUL),
                                               !.l.pos = 0, !.l.len = 0]))
    ELSE IF c = CTRL_K THEN
        IF ~InBuf(w.l.buf, w.l.pos) THEN Undefined(w)
        ELSE ReturnMore(refreshLine([w EXCEPT !.l.buf = BufPut(@, w.l.pos, NUL),
                                              !.l.len = w.l.pos]))
    ELSE IF c = CTRL_A THEN ReturnMore(linenoiseEditMoveHome(w))
    ELSE IF c = CTRL_E THEN ReturnMore(linenoiseEditMoveEnd(w))
    ELSE IF c = CTRL_L THEN ReturnMore(refreshLine(linenoiseClearScreen(w)))
    ELSE IF c = CTRL_W THEN ReturnMore(linenoiseEditDeletePrevWord(w))
    ELSE ReturnMore(linenoiseEditInsert(w, c))

\* return (int)l->pos of the dumb handler
ReturnCommittedDumb(w) == [w EXCEPT !.r = w.l.pos, !.ev = "commit"]

\* the byte is stored; a full buffer ends the line
DumbStored(w) ==
    IF w.l.pos >= ToSize(w.l.buflen - 1)
    THEN IF ~InBuf(w.l.buf, w.l.buflen - 1) THEN Undefined(w)
         ELSE ReturnCommittedDumb(lnRestartState(
                 [w EXCEPT !.l.buf = BufPut(@, w.l.buflen - 1, NUL)]))
    ELSE ReturnMore(w)

lnHandleCharacterDumb(w, c) ==
    IF ~InBuf(w.l.buf, w.l.pos) THEN Undefined(w)
    ELSE IF c = ENTER \/ c = LF
    THEN ReturnCommittedDumb(lnRestartState([w EXCEPT !.l.buf = BufPut(@, w.l.pos, NUL)]))
    ELSE DumbStored([w EXCEPT !.l.buf = BufPut(@, w.l.pos, c), !.l.pos = @ + 1])

\* snprintf(buf, n, "%s", s): at most n-1 bytes of s and a NUL; the C function returns Len(s)
SnprintfS(b, n, s) ==
    IF n = 0 THEN b
    ELSE [i \in 1..Len(b) |->
            IF i <= Min(Len(s), n - 1) THEN s[i]
            ELSE IF i = Min(Len(s), n - 1) + 1 THEN NUL
            ELSE b[i]]

\* the sequence is complete: back to ln_read_regular.  l.seq holds the bytes
\* seq[0 .. seq_idx-1] read since ESC: the C code never reads a byte of seq it has not
\* written since it last set seq_idx to 0, so the bytes of a finished sequence are
\* not kept.
\* lnReadEscSequence that does not set l->mode when the sequence is complete
EscDone_stays_in_esc(w) == [w EXCEPT !.l.seq = <<>>]

EscDone(w) == [w EXCEPT !.l.mode = "ln_read_regular", !.l.seq = <<>>]

\* lnReadEscSequence that ends every sequence of two bytes without acting on it
EscDispatch_ignores_all(w, seq) ==
    IF Len(seq) < 2 THEN w ELSE EscDone(w)

\* seq: the bytes of the sequence so far, the one just read included
EscDispatch(w, seq) ==
    IF Len(seq) < 2 THEN w
    ELSE IF seq[1] = ChLBracket THEN
        IF IsDigit(seq[2]) THEN
            IF Len(seq) < 3 THEN w
            ELSE IF seq[3] = ChTilde /\ seq[2] = Ch3 THEN EscDone(linenoiseEditDelete(w))
            ELSE EscDone(w)
        ELSE IF seq[2] = ChUpA
             THEN EscDone(linenoiseEditHistoryNext(w, LINENOISE_HISTORY_PREV))
        ELSE IF seq[2] = ChUpB
             THEN EscDone(linenoiseEditHistoryNext(w, LINENOISE_HISTORY_NEXT))
        ELSE IF seq[2] = ChUpC THEN EscDone(linenoiseEditMoveRight(w))
        ELSE IF seq[2] = ChUpD THEN EscDone(linenoiseEditMoveLeft(w))
        ELSE IF seq[2] = ChUpH THEN EscDone(linenoiseEditMoveHome(w))
        ELSE IF seq[2] = ChUpF THEN EscDone(linenoiseEditMoveEnd(w))
        ELSE EscDone(w)
    ELSE IF seq[1] = ChO THEN
        IF seq[2] = ChUpH THEN EscDone(linenoiseEditMoveHome(w))
        ELSE IF seq[2] = ChUpF THEN EscDone(linenoiseEditMoveEnd(w))
        ELSE EscDone(w)
    ELSE EscDone(w)

lnReadEscSequence(w, k) ==
    Bind(LAMBDA g :
            IF g.r < 0 THEN ReturnMore(g)
            ELSE IF g.l.seq_idx >= SEQ_SIZE THEN ReturnMore(KeySeen(g))
            ELSE ReturnMore(EscDispatch([KeySeen(g) EXCEPT !.l.seq = Append(@, g.r),
                                                           !.l.seq_idx = @ + 1],
                                        Append(g.l.seq, g.r))),
         linenoise_getch(w, k))

\* a byte other than TAB and ESC accepts the candidate that is shown
AcceptCandidate(w) ==
    IF w.l.completion_idx < Len(w.l.lc)
    THEN [w EXCEPT !.l.buf = SnprintfS(@, w.l.buflen, w.l.lc[w.l.completion_idx + 1]),
                   !.l.len = Len(w.l.lc[w.l.completion_idx + 1]),
                   !.l.pos = Len(w.l.lc[w.l.completion_idx + 1])]
    ELSE w

\* ESC shows the line again
RejectCandidate(w) ==
    IF w.l.completion_idx < Len(w.l.lc) THEN refreshLine(w) ELSE w

\* CompletionOver that reads the byte again instead of handling the one it has
CompletionOver_reads_again(w, c) ==
    IF w.ub THEN w
    ELSE lnHandleCharacter(
             linenoise_getch([w EXCEPT !.l.mode = "ln_read_regular", !.l.lc = <<>>], c),
             c, <<>>)

\* the byte that ended the completion is handled as a key
\* lnCompletion that ends the completion without handling the byte that ended it
CompletionOver_drops_byte(w, c) ==
    ReturnMore([w EXCEPT !.l.mode = "ln_read_regular", !.l.lc = <<>>])

CompletionOver(w, c) ==
    IF w.ub THEN w
    ELSE lnHandleCharacter([w EXCEPT !.l.mode = "ln_read_regular", !.l.lc = <<>>], c, <<>>)

lnCompletion(w, k) ==
    Bind(LAMBDA g :
            IF g.r < 0 THEN ReturnMore(g)
            ELSE IF g.r = TAB
            THEN ReturnMore(lnShowCompletion(
                    [KeySeen(g) EXCEPT !.l.completion_idx = (@ + 1) % (Len(g.l.lc) + 1)]))
            ELSE CompletionOver((IF g.r = ESC THEN RejectCandidate(KeySeen(g))
                                 ELSE AcceptCandidate(KeySeen(g))),
                                g.r),
         linenoise_getch(w, k))

\* lnReadUserInput that redraws the line when there is no byte to read
lnReadUserInput_redraws(w, k, cands) ==
    Bind(LAMBDA g :
            IF g.r < 0 THEN ReturnMore(refreshLine(g))
            ELSE IF g.l.smart_term_connected THEN lnHandleCharacter(KeySeen(g), g.r, cands)
            ELSE lnHandleCharacterDumb(KeySeen(g), g.r),
         linenoise_getch(w, k))

lnReadUserInput(w, k, cands) ==
    Bind(LAMBDA g :
            IF g.r < 0 THEN ReturnMore(g)
            ELSE IF g.l.smart_term_connected THEN lnHandleCharacter(KeySeen(g), g.r, cands)
            ELSE lnHandleCharacterDumb(KeySeen(g), g.r),
         linenoise_getch(w, k))

ProbeModes == {"ln_getColumns", "ln_getColumns_1", "ln_getColumns_2"}

\* case ln_getColumns, ln_getColumns_1, ln_getColumns_2 of linenoiseEdit
EditProbe(w, kp, reply) ==
    IF w.l.mode \notin ProbeModes THEN [w EXCEPT !.r = 0]
    ELSE IF w.probe = "first" THEN getColumns_first(w, kp, reply)
    ELSE getColumns(w, kp, reply)

\* case ln_init, entered directly or by falling through
EditInit(w, buflen, prompt) ==
    IF w.l.mode = "ln_init" THEN lnInitState(w, buflen, prompt) ELSE w

\* the cases that read a key
EditRead(w, k, cands) ==
    IF w.l.mode = "ln_read_regular" THEN lnReadUserInput(w, k, cands)
    ELSE IF w.l.mode = "ln_read_esc" THEN lnReadEscSequence(w, k)
    ELSE lnCompletion(w, k)

\* One call linenoiseEdit(buf, buflen, prompt).  k: the key the call finds when it asks
\* for a key and the terminal has sent nothing; kp: the same for the byte the prober
\* asks for; reply: what the terminal answers if the call sends a cursor query.
linenoiseEdit(w, buflen, prompt, kp, k, reply, cands) ==
    Bind(LAMBDA g :
            IF g.ub THEN g
            ELSE IF g.r < 0 THEN ReturnMore(g)
            ELSE EditRead(EditInit(g, buflen, prompt), k, cands),
         EditProbe([w EXCEPT !.out = <<>>, !.nread = 0, !.ev = "idle", !.started = FALSE,
                             !.entry = w.l.mode, !.arg_prompt = prompt,
                             !.runaway = FALSE, !.rows = 0],
                   kp, reply))

\* what a call of the API other than linenoiseEdit leaves for the observers: it reads
\* no byte and returns nothing
ApiCall(w, name, prompt) ==
    [w EXCEPT !.out = <<>>, !.nread = 0, !.ev = "none", !.started = FALSE,
              !.entry = name, !.arg_prompt = prompt, !.runaway = FALSE,
              !.rows = 0]

\* linenoiseRefreshEditor without the test of smartTerminalConnected()
linenoiseRefreshEditor_unchecked(w) ==
    IF w.l.mode \in ProbeModes \cup {"ln_init"} THEN w
    ELSE IF w.l.mode = "ln_completion" THEN lnShowCompletion(w)
    ELSE refreshLine(w)

linenoiseRefreshEditor(w) ==
    IF ~w.l.smart_term_connected THEN w
    ELSE IF w.l.mode \in ProbeModes \cup {"ln_init"} THEN w
    ELSE IF w.l.mode = "ln_completion" THEN lnShowCompletion(w)
    ELSE refreshLine(w)

linenoiseUpdatePrompt(w, prompt) ==
    linenoiseRefreshEditor([w EXCEPT !.l.prompt = prompt, !.l.plen = Len(prompt)])

(***************************************************************************)
(* The program state as one record, and back.                              *)
(***************************************************************************)
World ==
    [l |-> l_state, history |-> history, history_len |-> history_len,
     history_max_len |-> history_max_len, history_null |-> history_null,
     mlmode |-> mlmode, probe |-> probe,
     term_q |-> term_q, timer |-> timer, out |-> out, nread |-> nread,
     ev |-> ev, started |-> started, entry |-> entry, arg_prompt |-> arg_prompt,
     runaway |-> runaway, rows |-> last_rows, oom |-> oom, ub |-> ub, r |-> ret]

Becomes(w) ==
    /\ l_state' = w.l
    /\ history' = w.history
    /\ history_len' = w.history_len
    /\ history_max_len' = w.history_max_len
    /\ history_null' = w.history_null
    /\ term_q' = w.term_q
    /\ timer' = w.timer
    /\ out' = w.out
    /\ nread' = w.nread
    /\ ret' = w.r
    /\ ev' = w.ev
    /\ started' = w.started
    /\ entry' = w.entry
    /\ arg_prompt' = w.arg_prompt
    /\ runaway' = w.runaway
    /\ last_rows' = w.rows
    /\ ub' = w.ub
    /\ UNCHANGED <<mlmode, probe, hostbuflen, scenario, oom>>

(***************************************************************************)
(* Inputs.  A run exercises one part of the interface: the keys the user   *)
(* presses and the calls the host makes are those of the run's scenario.   *)
(***************************************************************************)
\* the modes in which a session is open
SessionModes == {"ln_read_regular", "ln_read_esc", "ln_completion"}
Scenarios == {"lifecycle", "history", "editing", "completion", "host", "oom", "words"}

PromptShort == <<62>>                                  \* ">"
PromptLong == <<62, SPACE>>                            \* "> "
Prompts == IF scenario = "lifecycle" THEN {PromptShort, PromptLong} ELSE {PromptLong}

KeysSmart ==
    IF scenario = "lifecycle" THEN {ChA, ENTER, CTRL_C, CTRL_D}
    ELSE IF scenario = "history" THEN {ChA, ENTER, CTRL_D, CTRL_P, CTRL_N, BACKSPACE, ESC}
    ELSE IF scenario = "editing"
         THEN {CTRL_A, CTRL_B, CTRL_C, CTRL_D, CTRL_E, CTRL_F, CTRL_H, CTRL_K, CTRL_L,
               ENTER, CTRL_T, CTRL_U, CTRL_W, ESC, BACKSPACE, ChA, SPACE}
    ELSE IF scenario = "host" THEN {TAB, ChA, ENTER}
    ELSE IF scenario = "oom" THEN {ChA, ENTER, CTRL_P}
    ELSE IF scenario = "words" THEN {ChA, SPACE, NUL, CTRL_T, CTRL_B, CTRL_W, ENTER}
    ELSE {TAB, ChA, ENTER, ESC, CTRL_C, BACKSPACE}
KeysDumb == {ENTER, LF, CTRL_D, ChA}
KeysEsc ==
    IF scenario = "history" THEN {ChLBracket, ChUpA, ChUpB}
    ELSE IF scenario = "editing"
         THEN {ChLBracket, ChO, ChUpC, ChUpD, ChUpH, ChUpF, Ch3, ChTilde}
    ELSE {ChLBracket, ChA}
KeysProbe == {ChA}
\* what the terminal answers to the first and to the second cursor-position query
GoodReply1 == <<ESC, ChLBracket, 49, ChSemi, 49, ChR>>     \* ESC [ 1 ; 1 R
GoodReply2 == <<ESC, ChLBracket, 49, ChSemi, 52, ChR>>     \* ESC [ 1 ; 4 R
BadReply == <<ESC, ChLBracket, ChR>>                         \* ESC [ R
ZeroColReply == <<ESC, ChLBracket, 49, ChSemi, Ch0, ChR>>   \* ESC [ 1 ; 0 R
NarrowReply == <<ESC, ChLBracket, 49, ChSemi, 50, ChR>>     \* ESC [ 1 ; 2 R
\* ESC and then letters, with no R, as many bytes as the prober stores at most
FloodReply == [i \in 1..(CUR_POS_BUF_SIZE - 1) |-> IF i = 1 THEN ESC ELSE ChA]
Replies1 ==
    IF scenario = "lifecycle" THEN {GoodReply1, BadReply, FloodReply, <<>>} ELSE {GoodReply1}
Replies2 ==
    IF scenario = "lifecycle" THEN {GoodReply2, <<ChJunk>> \o GoodReply2, ZeroColReply, NarrowReply, BadReply, <<>>}
    ELSE IF scenario = "words" THEN {<<ESC, ChLBracket, 49, ChSemi, 49, 49, ChR>>}   \* ESC [ 1 ; 11 R
    ELSE {GoodReply2}
\* what the host's completion producer offers: nothing, or a short candidate, one of
\* the length the caller's buffer is said to take (buflen - 1) and a longer one
LongCand == [i \in 1..(MaxBufLen + 1) |-> ChA]
FullCand == [i \in 1..(MaxBufLen - 1) |-> ChA]
CandidateSets == {<<>>, <<<<ChA>>, FullCand, LongCand>>}
HostLines == {<<ChA>>}
HistoryFiles == {<<ChB, ENTER, LF, LF>>}     \* "b\r\n\n"

KeysFor(w) == IF w.l.smart_term_connected THEN KeysSmart ELSE KeysDumb
CandsFor(w, k) == IF w.l.smart_term_connected /\ k = TAB THEN CandidateSets ELSE {<<>>}

Init ==
    /\ scenario \in Scenarios
    /\ probe \in (IF scenario = "lifecycle" THEN {"disabled", "second", "first"}
                  ELSE IF scenario = "host" THEN {"disabled", "second"}
                  ELSE {"second"})
    /\ mlmode \in (IF scenario \in {"editing", "host"} THEN BOOLEAN ELSE {FALSE})
    /\ hostbuflen \in (IF scenario = "lifecycle" THEN 2..MaxBufLen
                       ELSE IF scenario = "words" THEN {WordBufLen}
                       ELSE {MaxBufLen})
    /\ l_state = [mode |-> "ln_getColumns", seq |-> <<>>, seq_idx |-> 0,
                   completion_idx |-> 0, lc |-> <<>>,
                   cur_pos_buf |-> <<>>, cur_pos_idx |-> 0, cur_pos_initial |-> 0,
                   smart_term_connected |-> FALSE,
                   buf |-> [i \in 1..hostbuflen |-> ChJunk], buflen |-> 0,
                   prompt |-> <<>>, plen |-> 0, pos |-> 0, oldpos |-> 0, len |-> 0,
                   cols |-> 0, maxrows |-> 0, history_index |-> 0]
    /\ history = <<>>
    /\ history_len = 0
    /\ history_max_len = LINENOISE_DEFAULT_HISTORY_MAX_LEN
    /\ history_null = TRUE
    /\ term_q = <<>>
    /\ timer = "idle"
    /\ out = <<>>
    /\ nread = 0
    /\ ret = 0
    /\ ev = "none"
    /\ started = FALSE
    /\ entry = "none"
    /\ arg_prompt = <<>>
    /\ runaway = FALSE
    /\ last_rows = 0
    /\ oom = FALSE
    /\ ub = FALSE

(***************************************************************************)
(* Actions: one call of linenoiseEdit per starting mode, the host's calls  *)
(* of the history API, and the deadline timer.                             *)
(***************************************************************************)
\* a call that starts in one of the probing modes
\* the host passes prompt
StepProbeWith(prompt) ==
    /\ ~ub
    /\ l_state.mode \in ProbeModes
    /\ \E kp \in (IF term_q # <<>> \/ probe = "disabled"
                      \/ l_state.cur_pos_idx >= MaxTypeAhead THEN {NOBYTE}
                   ELSE KeysProbe \cup {NOBYTE}),
          reply \in (IF probe = "disabled" THEN {<<>>}
                     ELSE IF l_state.mode = "ln_getColumns" THEN Replies1 ELSE Replies2),
          k \in KeysSmart \cup KeysDumb \cup {NOBYTE},
          cands \in CandidateSets :
        \E e \in {linenoiseEdit(World, hostbuflen, prompt, kp, k, reply, cands)} :
            \* the key is one the terminal the probe found has, and is there only
            \* when the call came to ask for it
            /\ k # NOBYTE => e.started /\ k \in KeysFor(e)
            /\ cands \in CandsFor(e, k)
            /\ Becomes(e)

StepProbe == \E prompt \in Prompts : StepProbeWith(prompt)

StepInitWith(prompt) ==
    /\ ~ub
    /\ l_state.mode = "ln_init"
    /\ \E k \in KeysFor(World) \cup {NOBYTE} :
        \E cands \in CandsFor(World, k) :
            Becomes(linenoiseEdit(World, hostbuflen, prompt, NOBYTE, k, <<>>, cands))

StepInit == \E prompt \in Prompts : StepInitWith(prompt)

StepRegular ==
    /\ ~ub
    /\ l_state.mode = "ln_read_regular"
    /\ \E k \in KeysFor(World) \cup {NOBYTE} :
        \E cands \in CandsFor(World, k) :
            Becomes(linenoiseEdit(World, hostbuflen, <<>>, NOBYTE, k, <<>>, cands))

StepEsc ==
    /\ ~ub
    /\ l_state.mode = "ln_read_esc"
    /\ \E k \in KeysEsc \cup {NOBYTE} :
        Becomes(linenoiseEdit(World, hostbuflen, <<>>, NOBYTE, k, <<>>, <<>>))

StepCompletion ==
    /\ ~ub
    /\ l_state.mode = "ln_completion"
    /\ \E k \in KeysSmart \cup {NOBYTE} :
        Becomes(linenoiseEdit(World, hostbuflen, <<>>, NOBYTE, k, <<>>, <<>>))

\* the functions of the history API the host calls
HistoryApi == {"history_add", "history_set_max_len", "history_load"}
\* a call of the history API leaves what the last call of linenoiseEdit reported alone,
\* and is the last call that was made
HostBecomes(w, name) ==
    Becomes([w EXCEPT !.out = out, !.nread = nread, !.ev = ev, !.started = started,
                      !.entry = name, !.arg_prompt = arg_prompt,
                      !.runaway = runaway, !.rows = last_rows, !.r = ret])

\* main() adds to the history and loads it before it starts to read a line
HostHistoryAdd ==
    /\ ~ub
    /\ scenario \in {"history", "oom"}
    /\ l_state.mode \in {"ln_getColumns", "ln_init"}
    /\ history_len < MaxHistory
    /\ \E line \in HostLines : HostBecomes(linenoiseHistoryAdd(World, line), "history_add")

\* main(): a committed line that is neither empty nor a command goes into the history
HostAddCommitted ==
    /\ ~ub
    /\ scenario \in {"lifecycle", "history"}
    /\ ev = "commit" /\ ret > 0
    /\ history_len < MaxHistory
    /\ HasNul(l_state.buf)
    /\ CStr(l_state.buf) # <<>>
    /\ HostBecomes(linenoiseHistoryAdd(World, CStr(l_state.buf)), "history_add")

HostHistorySetMaxLen ==
    /\ ~ub
    /\ scenario = "history"
    /\ \E n \in 0..MaxCap : HostBecomes(linenoiseHistorySetMaxLen(World, n), "history_set_max_len")

HostHistoryLoad ==
    /\ ~ub
    /\ scenario = "history"
    /\ l_state.mode \in {"ln_getColumns", "ln_init"}
    /\ history_len < MaxHistory
    /\ \E f \in HistoryFiles : HostBecomes(linenoiseHistoryLoad(World, f), "history_load")

\* the host calls linenoiseRefreshEditor, linenoiseUpdatePrompt or
\* linenoiseClearScreen between two calls of linenoiseEdit
HostRefreshEditor ==
    /\ ~ub
    /\ scenario = "host"
    /\ Becomes(linenoiseRefreshEditor(ApiCall(World, "refresh_editor", <<>>)))

HostUpdatePrompt ==
    /\ ~ub
    /\ scenario = "host"
    /\ \E p \in {PromptShort, PromptLong} :
          Becomes(linenoiseUpdatePrompt(ApiCall(World, "update_prompt", p), p))

HostClearScreen ==
    /\ ~ub
    /\ scenario = "host"
    /\ l_state.mode \in SessionModes
    /\ Becomes(linenoiseClearScreen(ApiCall(World, "clear_screen", <<>>)))

\* the heap is used up: every allocation after this fails
HeapRunsOut ==
    /\ ~ub
    /\ scenario = "oom"
    /\ ~oom
    /\ oom' = TRUE
    /\ UNCHANGED <<l_state, history, history_len, history_max_len, history_null, mlmode,
                   probe, hostbuflen, scenario, term_q, timer, out, nread, ret, ev,
                   started, entry, arg_prompt, runaway, last_rows, ub>>

TimerElapse ==
    /\ ~ub
    /\ l_state.mode \in ProbeModes
    /\ term_q = <<>>
    /\ timer = "armed"
    /\ timer' = "elapsed"
    /\ UNCHANGED <<l_state, history, history_len, history_max_len, history_null, mlmode,
                   probe, hostbuflen, scenario, term_q, out, nread, ret, ev, started,
                   entry, arg_prompt,
                   runaway, last_rows, oom, ub>>

Next ==
    \/ StepProbe
    \/ StepInit
    \/ StepRegular
    \/ StepEsc
    \/ StepCompletion
    \/ HostRefreshEditor
    \/ HostUpdatePrompt
    \/ HostClearScreen
    \/ HeapRunsOut
    \/ HostHistoryAdd
    \/ HostAddCommitted
    \/ HostHistorySetMaxLen
    \/ HostHistoryLoad
    \/ TimerElapse

Spec == Init /\ [][Next]_vars

\* A session from the first call on, with the terminals and the builds of the
\* life cycle runs, no call of the host between the calls of linenoiseEdit.  The host
\* goes on calling linenoiseEdit while the editor probes, and the deadline of a probe
\* that is waiting comes.
LiveInit == Init /\ scenario = "lifecycle"
LiveNext == StepProbe \/ StepInit \/ StepRegular \/ TimerElapse
LiveSpec == LiveInit /\ [][LiveNext]_vars /\ WF_vars(StepProbe) /\ WF_vars(TimerElapse)

(***************************************************************************)
(* Properties of the buffer, the return value and the session life cycle.  *)
(***************************************************************************)
\* C1: while a session is open and when a line is committed, pos <= len < buflen
\* (the capacity the host passed) and buf[len] = 0, whatever the terminal and
\* whatever the length of an accepted completion candidate.
C1_BufferWellFormed ==
    (~ub /\ (l_state.mode \in SessionModes \/ ev = "commit")) =>
        /\ 0 <= l_state.pos
        /\ l_state.pos <= l_state.len
        /\ l_state.len < hostbuflen
        /\ BufAt(l_state.buf, l_state.len) = NUL

C3_AtMostOneByte == nread <= 1

\* C3, amended: a call that starts in ln_init, ln_read_regular, ln_read_esc or
\* ln_completion reads at most one byte; a call that starts in a probing mode
\* reads at most two, and reads two only when the probe ends in that call and the
\* call goes on through ln_init to read a key.
\* (after a call of the history API entry no longer names the mode the last call of
\* linenoiseEdit began in)
C3_BytesPerCall ==
    /\ nread <= 2
    /\ entry \notin HistoryApi =>
          /\ entry \notin ProbeModes => nread <= 1
          /\ nread = 2 => started /\ entry \in {"ln_getColumns_1", "ln_getColumns_2"}

\* C3: the call that read the last byte of the probe's reply and a key
C3_ProbeEndAndKey ==
    ~ub /\ nread = 2 /\ started /\ ev # "idle" /\ entry = "ln_getColumns_2"

\* C4: the call that ends a session (commit or end of input) takes the scratch
\* entry out of the history, on smart and dumb terminals alike.
C4_ScratchPopped ==
    [][(l_state.mode \in SessionModes /\ l_state.mode = entry'
           /\ ~ub' /\ ev' \in {"commit", "eof"} /\ ev' # ev)
          => history_len' = history_len - 1]_vars

\* C5: 0 <= history_len <= history_max_len in every reachable state.
C5_HistoryLenBounded == 0 <= history_len /\ history_len <= history_max_len

\* C6: no two adjacent history entries are equal; stated for the states in which
\* no session is open, where the history holds no scratch entry.
C6_NoAdjacentDuplicates ==
    (~ub /\ l_state.mode \notin SessionModes) =>
        \A i \in 1..(Len(history) - 1) : history[i] # history[i + 1]

\* a session that lnInitState has just set up for the prompt p
FreshSession(l, p) ==
    /\ l.mode = "ln_read_regular"
    /\ l.len = 0 /\ l.pos = 0 /\ l.oldpos = 0 /\ l.maxrows = 0
    /\ l.history_index = 0
    /\ BufAt(l.buf, 0) = NUL
    /\ l.prompt = p /\ l.plen = Len(p)
    /\ l.buflen = hostbuflen - 1

C8_RestartAfterEof ==
    (~ub /\ ev = "eof") =>
        l_state.mode = IF l_state.smart_term_connected THEN "ln_getColumns" ELSE "ln_init"

\* the byte waiting in the terminal ends the reply rep of which the prober holds
\* the rest
CompletesReply(rep) ==
    /\ term_q = <<ChR>>
    /\ l_state.cur_pos_buf \o <<ChR>> = rep

\* what the probing call that reads that byte does with a terminal that answers
\* well
ProbeAnswered ==
    /\ (l_state.mode = "ln_getColumns_1" /\ CompletesReply(GoodReply1) /\ term_q' # term_q)
           => /\ l_state'.mode = "ln_getColumns_2"
              /\ l_state'.smart_term_connected
              /\ out' = CursorFarRight \o CursorQuery
    /\ (l_state.mode = "ln_getColumns_2" /\ CompletesReply(GoodReply2) /\ term_q' # term_q)
           => /\ started'
              /\ l_state'.smart_term_connected
              /\ l_state'.cols = GoodReply2[5] - Ch0

\* C9 as the claim states it: a call in ln_getColumns sends the cursor query and
\* goes to ln_getColumns_1; the end of a well-formed first reply leads to
\* ln_getColumns_2, the end of a well-formed second reply to ln_init with
\* smart_term_connected set and cols the column of that reply.
C9_ProbeAlwaysRuns ==
    [][~ub' =>
          /\ (l_state.mode = "ln_getColumns" /\ entry' = "ln_getColumns"
                   /\ l_state'.mode # "ln_getColumns")
                => l_state'.mode = "ln_getColumns_1" /\ out' = CursorQuery
          /\ ProbeAnswered]_vars

\* C9, amended: the same, in a build whose getColumns probes; the second copy's
\* getColumns starts with goto failed and sends no query.
C9_ProbeSucceeds ==
    [][~ub' =>
          /\ (l_state.mode = "ln_getColumns" /\ entry' = "ln_getColumns"
                   /\ l_state'.mode # "ln_getColumns" /\ probe # "disabled")
                => l_state'.mode = "ln_getColumns_1" /\ out' = CursorQuery
          /\ ProbeAnswered]_vars

\* C9: the session set up by the call that read the end of the second reply
C9_ProbedColumns ==
    /\ ~ub /\ started /\ nread >= 1
    /\ l_state.smart_term_connected
    /\ l_state.cur_pos_buf = GoodReply2
    /\ l_state.cols = GoodReply2[5] - Ch0

\* C10: once probing has failed the terminal is dumb and 80 columns wide.
C10_FailedProbeDefaults ==
    (~ub /\ l_state.mode \notin ProbeModes /\ ~l_state.smart_term_connected) =>
        l_state.cols = DEFAULT_COLS

(***************************************************************************)
(* C11.  Once the probe has failed the terminal is dumb for good: a call   *)
(* of linenoiseEdit that begins in ln_init or in a reading mode writes     *)
(* nothing but the plain prompt (no ESC byte, no redraw), never goes back  *)
(* to a probing mode, and commits with the dumb handler's count, the       *)
(* position; linenoiseRefreshEditor and linenoiseUpdatePrompt write        *)
(* nothing at all.                                                         *)
(***************************************************************************)
Range(s) == {s[i] : i \in 1..Len(s)}

C11_DumbTerminalStaysPlain ==
    /\ (~ub /\ ~l_state.smart_term_connected /\ entry \in SessionModes \cup {"ln_init"})
        => /\ ESC \notin Range(out)
           /\ out = (IF started THEN arg_prompt ELSE <<>>)
           /\ l_state.mode \in {"ln_init", "ln_read_regular"}
           /\ ev = "commit" => ret = l_state.pos /\ l_state.mode = "ln_init"
    /\ (~ub /\ ~l_state.smart_term_connected
            /\ l_state.mode \in {"ln_init", "ln_read_regular"}
            /\ entry \in {"refresh_editor", "update_prompt"})
        => out = <<>>

\* the host changes the prompt while a dumb terminal's line is being read
C11_DumbPromptUpdate ==
    /\ ~ub /\ ~l_state.smart_term_connected
    /\ l_state.mode = "ln_read_regular" /\ history_len > 0
    /\ entry = "update_prompt" /\ l_state.prompt = PromptShort
    /\ out = <<>>

(***************************************************************************)
(* C12.  Once the probe is over, on success and on every failure path, and *)
(* whatever the terminal sent in reply, the editor works with at least one *)
(* column: cols >= 1.                                                      *)
(***************************************************************************)
C12_ColsAtLeastOne ==
    (~ub /\ entry # "none" /\ l_state.mode \notin ProbeModes) => l_state.cols >= 1

(***************************************************************************)
(* C13.  A call of linenoiseEdit that waits for a byte (in ln_read_regular,*)
(* ln_read_esc or ln_completion, or in ln_getColumns_1 or ln_getColumns_2  *)
(* once the query is out and before the deadline has passed) and finds     *)
(* none returns -1, writes nothing, and leaves the editor state and the    *)
(* history as they were.                                                   *)
(***************************************************************************)
WaitsForByte ==
    \/ l_state.mode \in SessionModes
    \/ /\ l_state.mode \in {"ln_getColumns_1", "ln_getColumns_2"}
       /\ l_state.cur_pos_idx >= 0
       /\ timer # "elapsed"

C13_NoByteNoChange ==
    [][(~ub /\ WaitsForByte /\ term_q = <<>> /\ entry' = l_state.mode /\ nread' = 0)
       => /\ ret' = 0 - 1
          /\ out' = <<>>
          /\ ~ub'
          /\ UNCHANGED <<l_state, history, history_len, history_max_len, history_null>>]_vars

\* a call found no byte while a line with bytes in it was being edited
C13_IdleCall ==
    /\ ~ub /\ entry = "ln_read_regular" /\ l_state.mode = "ln_read_regular"
    /\ nread = 0 /\ ev = "idle" /\ ~started
    /\ l_state.len > 0 /\ ret = 0 - 1 /\ out = <<>>

(***************************************************************************)
(* C14.  Browsing the candidates does not touch the line being edited: the *)
(* call that enters ln_completion on the first Tab, every call that stays  *)
(* in ln_completion, and the call that leaves it on Escape keep the bytes  *)
(* of the buffer, len and pos.                                             *)
(***************************************************************************)
C14_BrowsingKeepsLine ==
    [][(/\ ~ub'
        /\ entry' = l_state.mode
        /\ \/ l_state.mode = "ln_read_regular" /\ l_state'.mode = "ln_completion"
           \/ l_state.mode = "ln_completion" /\ l_state'.mode = "ln_completion"
           \/ l_state.mode = "ln_completion" /\ l_state'.mode = "ln_read_esc")
       => /\ l_state'.buf = l_state.buf
          /\ l_state'.len = l_state.len
          /\ l_state'.pos = l_state.pos]_vars

\* Escape has just ended the browsing of the candidates for a line with bytes in it
C14_EscapedFromBrowsing ==
    /\ ~ub /\ entry = "ln_completion" /\ l_state.mode = "ln_read_esc"
    /\ nread = 1 /\ l_state.len > 0 /\ l_state.lc = <<>>

(***************************************************************************)
(* C15.  In ln_completion with candidate i shown, Enter accepts it: the    *)
(* call returns the length of candidate i and the buffer holds candidate i.*)
(***************************************************************************)
C15_EnterAcceptsCandidate ==
    [][(/\ ~ub /\ ~ub'
        /\ l_state.mode = "ln_completion" /\ entry' = "ln_completion"
        /\ nread' = 1 /\ ev' = "commit"
        /\ l_state.completion_idx < Len(l_state.lc))
       => /\ ret' = Len(l_state.lc[l_state.completion_idx + 1])
          /\ HasNul(l_state'.buf)
          /\ CStr(l_state'.buf) = l_state.lc[l_state.completion_idx + 1]]_vars

(***************************************************************************)
(* C16.  The candidates are held exactly while the mode is ln_completion:  *)
(* in every state, after any keys and any calls of the host, lc is         *)
(* populated if and only if the mode is ln_completion.                     *)
(***************************************************************************)
C16_CandidatesOnlyInCompletion ==
    ~ub => (l_state.lc # <<>> <=> l_state.mode = "ln_completion")

(***************************************************************************)
(* C17.  Going to older history entries and as many times back ends at     *)
(* history_index = 0 with the line B that was there at the start.  B is    *)
(* kept in the newest slot of the history while an older entry is shown,   *)
(* so the step back from history_index = 1 to history_index = 0 has to     *)
(* leave the buffer equal to that slot.                                    *)
(***************************************************************************)
C17_BackToLiveLine ==
    [][(/\ ~ub /\ ~ub'
        /\ l_state.mode \in SessionModes /\ entry' = l_state.mode
        /\ l_state.history_index = 1 /\ l_state'.history_index = 0
        /\ history_len > 1 /\ history_len' = history_len)
       => /\ HasNul(l_state'.buf)
          /\ CStr(l_state'.buf) = history[history_len]]_vars

(***************************************************************************)
(* C18.  While a session is open and the history has entries,              *)
(* history_index names one of them: 0 <= history_index < history_len,      *)
(* whatever keys come in and whatever calls of linenoiseHistoryAdd and     *)
(* linenoiseHistorySetMaxLen the host makes between the steps.             *)
(***************************************************************************)
C18_HistoryIndexInRange ==
    (~ub /\ l_state.mode \in SessionModes /\ history_len > 0)
        => /\ 0 <= l_state.history_index
           /\ l_state.history_index < history_len

(***************************************************************************)
(* C19.  A committed line is in the history afterwards, so that the next   *)
(* session gets the same line back with history-previous: on the empty     *)
(* line of a session, the step from history_index = 0 to history_index = 1 *)
(* leaves the buffer equal to the newest stored entry.                     *)
(***************************************************************************)
C19_CommittedLineComesBack ==
    [][(/\ ~ub /\ ~ub'
        /\ l_state.mode \in SessionModes /\ entry' = l_state.mode
        /\ l_state.len = 0
        /\ l_state.history_index = 0 /\ l_state'.history_index = 1
        /\ history_len > 1 /\ history_len' = history_len)
       => /\ HasNul(l_state'.buf)
          /\ CStr(l_state'.buf) = history[history_len - 1]]_vars

(***************************************************************************)
(* C20.  Ctrl-L in ln_read_regular clears the screen and redraws the line: *)
(* the bytes of the buffer, len, pos and the history are unchanged and the *)
(* session goes on in ln_read_regular, so that the bytes that follow edit  *)
(* the same line.                                                          *)
(***************************************************************************)
ClearScreenSeq == <<ESC, ChLBracket, ChUpH, ESC, ChLBracket, 50, 74>>   \* ESC [ H ESC [ 2 J

C20_CtrlLKeepsSession ==
    [][(/\ ~ub /\ ~ub'
        /\ l_state.mode = "ln_read_regular" /\ entry' = "ln_read_regular"
        /\ nread' = 1
        /\ Len(out') >= Len(ClearScreenSeq)
        /\ SubSeq(out', 1, Len(ClearScreenSeq)) = ClearScreenSeq)
       => /\ l_state'.buf = l_state.buf
          /\ l_state'.len = l_state.len
          /\ l_state'.pos = l_state.pos
          /\ history' = history /\ history_len' = history_len
          /\ l_state'.mode = "ln_read_regular"]_vars

(***************************************************************************)
(* History store.                                                          *)
(***************************************************************************)
\* the lines the store functions are tried with: empty, "a", "b"
StoreLines == {<<>>, <<ChA>>, <<ChB>>}

\* a: the store after linenoiseHistoryAdd(line)
HistoryAddContract(a, line) ==
    IF history_len > 0 /\ history[history_len] = line
    THEN a.r = 0 /\ a.history = history /\ a.history_len = history_len
    ELSE /\ a.r = 1
         /\ a.history = (IF history_len = history_max_len THEN Tail(history) ELSE history)
                            \o <<line>>
         /\ a.history_len = Len(a.history)

\* C21: while allocations succeed, linenoiseHistoryAdd(line) on a store of capacity
\* history_max_len >= 1 returns 0
\* and changes nothing when line equals the newest entry; otherwise it returns 1 and
\* the store is the old one, without its oldest entry if it was full, followed by line.
C21_HistoryAdd ==
    (~ub /\ ~oom /\ history_max_len >= 1)
        => \A line \in StoreLines :
              /\ HistoryAddContract(linenoiseHistoryAdd(World, line), line)
              /\ linenoiseHistoryAdd(World, line).history_max_len = history_max_len

\* the host has added a line, and the store is full
C21_AddedToFullStore ==
    /\ ~ub /\ entry = "history_add"
    /\ history_max_len >= 1 /\ history_len = history_max_len
    /\ history[history_len] \in HostLines

\* the last k entries of the store
MostRecent(k) == [i \in 1..k |-> history[history_len - k + i]]

\* m: the store after linenoiseHistorySetMaxLen(n)
HistorySetMaxLenContract(m, n) ==
    IF n >= 1
    THEN /\ m.r = 1
         /\ m.history_max_len = n
         /\ m.history_len = Min(n, history_len)
         /\ m.history = MostRecent(Min(n, history_len))
    ELSE /\ m.r = 0
         /\ m.history_max_len = history_max_len
         /\ m.history_len = history_len
         /\ m.history = history

\* C22: while allocations succeed, linenoiseHistorySetMaxLen(n) with n >= 1 returns 1
\* and leaves the
\* min(n, history_len) most recent entries in their order with history_max_len = n;
\* with n = 0 it returns 0 and changes neither the entries nor the capacity.
C22_HistorySetMaxLen ==
    (~ub /\ ~oom) => \A n \in 0..(MaxCap + 1) :
              HistorySetMaxLenContract(linenoiseHistorySetMaxLen(World, n), n)

\* the host has cut a store of two entries down to one while an older entry is shown
C22_CutToOne ==
    /\ ~ub /\ entry = "history_set_max_len"
    /\ history_max_len = 1 /\ history_len = 1
    /\ l_state.mode = "ln_read_regular" /\ l_state.history_index = 1

\* linenoiseHistorySave: what fprintf(fp, "%s\n", history[j]) writes for the entries
\* from j on
RECURSIVE linenoiseHistorySave(_, _)
linenoiseHistorySave(h, j) ==
    IF j > Len(h) THEN <<>> ELSE h[j] \o <<LF>> \o linenoiseHistorySave(h, j + 1)

\* a store of the same capacity with nothing in it
EmptyStore(w) == [w EXCEPT !.history = <<>>, !.history_len = 0, !.history_null = TRUE]

\* C23: while no line is being read, a history of non-empty lines that is saved and
\* then loaded into an empty store of the same capacity comes back as the same
\* sequence of entries.
C23_SaveLoadRoundTrip ==
    (/\ ~ub /\ ~oom
     /\ l_state.mode \in {"ln_getColumns", "ln_init"}
     /\ \A i \in 1..Len(history) : history[i] # <<>>)
        => linenoiseHistoryLoad(EmptyStore(World),
                                linenoiseHistorySave(history, 1)).history = history

(***************************************************************************)
(* C24.  linenoiseRefreshEditor called again with no input in between      *)
(* writes the bytes it wrote the time before, with no loop running away,   *)
(* and leaves the buffer, len, pos and the mode unchanged, in single-line  *)
(* mode, in multi-line mode and in ln_completion.                          *)
(***************************************************************************)
C24_RefreshIsIdempotent ==
    [][(~ub /\ ~ub' /\ entry = "refresh_editor" /\ entry' = "refresh_editor")
       => /\ out' = out
          /\ ~runaway /\ ~runaway'
          /\ l_state'.buf = l_state.buf
          /\ l_state'.len = l_state.len
          /\ l_state'.pos = l_state.pos
          /\ l_state'.mode = l_state.mode]_vars

(***************************************************************************)
(* Multi-line redraw.                                                      *)
(***************************************************************************)
\* the least number of rows of b columns that hold a cells
Ceil(a, b) == CHOOSE r \in 0..a : r * b >= a /\ (r = 0 \/ (r - 1) * b < a)

\* a call has redrawn the line in multi-line mode, and the line it drew is the one
\* in the buffer (lnShowCompletion draws a candidate in its place)
RedrawnMultiLine ==
    ~ub /\ mlmode /\ last_rows # 0 /\ l_state.mode # "ln_completion"

\* the cursor is at the end of a line that exactly fills its last row
CursorFillsRow ==
    /\ l_state.pos # 0 /\ l_state.pos = l_state.len
    /\ (Len(l_state.prompt) + l_state.len) % l_state.cols = 0

\* C25 as the claim states it: in multi-line mode the rows the redraw computes are
\* ceil((plen + len) / cols), also when the cursor is at the end of a line that
\* exactly fills its last row.
C25_RowsAreCeiling ==
    RedrawnMultiLine
        => last_rows = Ceil(Len(l_state.prompt) + l_state.len, l_state.cols)

\* C25, amended: the rows the redraw computes are ceil((plen + len) / cols), and one
\* more when the cursor is at the end of a line that exactly fills its last row.
C25_RowsWithCursorRow ==
    RedrawnMultiLine
        => last_rows = Ceil(Len(l_state.prompt) + l_state.len, l_state.cols)
                           + (IF CursorFillsRow THEN 1 ELSE 0)

\* a redraw of a line that fills its row with the cursor at its end
C25_FullRowRedrawn ==
    RedrawnMultiLine /\ CursorFillsRow /\ l_state.mode = "ln_read_regular"
        /\ last_rows = 2

(***************************************************************************)
(* C26.  Once allocations fail, the operations that allocate do nothing    *)
(* and the state stays consistent: nothing undefined happens, history_len  *)
(* counts the stored entries, and every stored entry is a string.          *)
(***************************************************************************)
C26_AllocFailureIsSoft ==
    oom => /\ ~ub
           /\ history_len = Len(history)
           /\ \A i \in 1..Len(history) : history[i] # NullEntry

(***************************************************************************)
(* C27.  Keys remove nothing from the history but the scratch entry of the *)
(* session they belong to.  Once Ctrl-D on the empty line has ended the    *)
(* session and removed its scratch entry, further keys, Ctrl-D on the      *)
(* empty line again among them, leave the entries the host added in place  *)
(* until a new session has pushed its own scratch entry.                   *)
(***************************************************************************)
C27_OnlyScratchIsPopped ==
    [][(/\ ~ub /\ ~ub' /\ ~oom
        /\ ev = "eof"
        /\ l_state.mode \in SessionModes /\ entry' = l_state.mode
        /\ ~started')
       => history_len' = history_len /\ history' = history]_vars

(***************************************************************************)
(* C28.  History navigation writes to the scratch slot only: a key handled *)
(* in an open session leaves every stored entry other than the newest one, *)
(* history[history_len - 1], as it was.                                    *)
(***************************************************************************)
C28_StoredEntriesUntouched ==
    [][(/\ ~ub /\ ~ub' /\ ~oom
        /\ l_state.mode \in SessionModes /\ entry' = l_state.mode
        /\ ~started'
        /\ history_len' = history_len /\ Len(history) = history_len)
       => \A i \in 1..(history_len - 1) : history'[i] = history[i]]_vars

(***************************************************************************)
(* C29.  In ln_completion every byte but Tab ends the completion: the      *)
(* candidates are freed and the byte is handled as in ln_read_regular.     *)
(* Escape leaves the buffer, len and pos as they are and puts the editor   *)
(* in ln_read_esc with seq_idx = 0.                                        *)
(***************************************************************************)
\* e: the state after the call of linenoiseEdit that reads byte k in ln_completion
EndsCompletion(e, k) ==
    \/ e.ub
    \/ /\ e.l.mode # "ln_completion"
       /\ e.l.lc = <<>>
       /\ k = ESC => /\ e.l.mode = "ln_read_esc"
                      /\ e.l.seq_idx = 0
                      /\ e.l.buf = l_state.buf
                      /\ e.l.len = l_state.len
                      /\ e.l.pos = l_state.pos

C29_OnlyTabStaysInCompletion ==
    (~ub /\ l_state.mode = "ln_completion")
        => \A k \in (1..127) \ {TAB} :
              EndsCompletion(linenoiseEdit(World, hostbuflen, <<>>, NOBYTE, k, <<>>, <<>>), k)

\* Escape has ended a completion: the editor waits for the rest of an escape sequence
C29_EscapeEndedCompletion ==
    /\ ~ub /\ entry = "ln_completion" /\ ev = "more"
    /\ l_state.mode = "ln_read_esc" /\ l_state.seq_idx = 0 /\ l_state.seq = <<>>
    /\ l_state.lc = <<>>

(***************************************************************************)
(* C30.  In ln_read_esc the sequences ESC [ A, ESC [ B, ESC [ C, ESC [ D,  *)
(* ESC [ H, ESC O H, ESC [ F, ESC O F and ESC [ 3 ~ end the sequence and   *)
(* change buffer, len, pos, history_index and the history as Ctrl-P,       *)
(* Ctrl-N, Ctrl-F, Ctrl-B, Ctrl-A, Ctrl-E and delete-right do; every other *)
(* sequence leaves them unchanged, and is over after three bytes at most.  *)
(***************************************************************************)
\* the key that does what the sequence seq (the bytes after ESC) does, 0 when none does
EscKey(seq) ==
    IF seq = <<ChLBracket, ChUpA>> THEN CTRL_P
    ELSE IF seq = <<ChLBracket, ChUpB>> THEN CTRL_N
    ELSE IF seq = <<ChLBracket, ChUpC>> THEN CTRL_F
    ELSE IF seq = <<ChLBracket, ChUpD>> THEN CTRL_B
    ELSE IF seq = <<ChLBracket, ChUpH>> \/ seq = <<ChO, ChUpH>> THEN CTRL_A
    ELSE IF seq = <<ChLBracket, ChUpF>> \/ seq = <<ChO, ChUpF>> THEN CTRL_E
    ELSE IF seq = <<ChLBracket, Ch3, ChTilde>> THEN CTRL_D
    ELSE 0

\* a and b hold the same line and the same history
SameLine(a, b) ==
    \/ a.ub /\ b.ub
    \/ /\ ~a.ub /\ ~b.ub
       /\ a.l.buf = b.l.buf /\ a.l.len = b.l.len /\ a.l.pos = b.l.pos
       /\ a.l.history_index = b.l.history_index
       /\ a.history = b.history /\ a.history_len = b.history_len

\* e: the state after the call of linenoiseEdit that reads the last byte of seq
EscEffect(e, seq) ==
    IF EscKey(seq) = 0
    THEN /\ SameLine(e, World)
         /\ Len(seq) >= 3 => e.l.mode = "ln_read_regular"
    ELSE /\ e.ub \/ e.l.mode = "ln_read_regular"
         /\ SameLine(e, IF EscKey(seq) = CTRL_D /\ l_state.len = 0 THEN World
                         ELSE lnHandleCharacter(World, EscKey(seq), <<>>))

C30_EscSequences ==
    (~ub /\ l_state.mode = "ln_read_esc")
        => \A k \in 1..127 :
              EscEffect(linenoiseEdit(World, hostbuflen, <<>>, NOBYTE, k, <<>>, <<>>),
                        Append(l_state.seq, k))

\* a sequence has moved the line shown away from the one being typed
C30_ArrowRecalledHistory ==
    /\ ~ub /\ entry = "ln_read_esc" /\ nread = 1 /\ out # <<>>
    /\ l_state.mode = "ln_read_regular" /\ l_state.history_index > 0

(***************************************************************************)
(* C31.  While the editor is in ln_read_esc at most two bytes of the       *)
(* sequence are stored (seq_idx <= 2, and seq_idx = 2 only after '[' and a *)
(* digit).  The first byte after ESC is stored; the second ends the        *)
(* sequence unless the first was '[' and the second is a digit, and then   *)
(* the third ends it: the editor is back in ln_read_regular.               *)
(***************************************************************************)
C31_EscSequenceEnds ==
    (~ub /\ l_state.mode = "ln_read_esc")
        => /\ l_state.seq_idx = Len(l_state.seq)
           /\ l_state.seq_idx < SEQ_SIZE
           /\ l_state.seq_idx = 2 => l_state.seq[1] = ChLBracket /\ IsDigit(l_state.seq[2])
           /\ term_q = <<>>
           /\ \A k \in 1..127 :
                linenoiseEdit(World, hostbuflen, <<>>, NOBYTE, k, <<>>, <<>>).l.mode
                     = IF \/ l_state.seq_idx = 0
                          \/ /\ l_state.seq_idx = 1
                             /\ l_state.seq[1] = ChLBracket /\ IsDigit(k)
                       THEN "ln_read_esc" ELSE "ln_read_regular"

\* ESC [ 3 has been read: the sequence needs a third byte
C31_WaitsForThirdByte ==
    /\ ~ub /\ l_state.mode = "ln_read_esc"
    /\ l_state.seq = <<ChLBracket, Ch3>> /\ l_state.seq_idx = 2

(***************************************************************************)
(* C32.  In multi-line mode no redraw lets its row arithmetic drop below   *)
(* zero: the loop that erases the rows above runs at most maxrows - 1      *)
(* times, the first redraw of a session (maxrows = 0) included.            *)
(***************************************************************************)
C32_RowArithmeticInRange ==
    (~ub /\ mlmode /\ l_state.mode \in SessionModes) => ~runaway

(***************************************************************************)
(* C33.  In every state of a single-line session with cols >= 1 and        *)
(* 0 <= pos <= len <= buflen, whatever the length of the prompt, the       *)
(* single-line renderer is defined, the window it shows satisfies          *)
(* 0 <= pos' <= len', plen + pos' < cols and plen + len' <= cols, and it   *)
(* leaves the buffer, len and pos alone.                                   *)
(***************************************************************************)
C33_SingleLineWindow ==
    (/\ ~ub /\ ~mlmode /\ l_state.mode \in SessionModes /\ l_state.cols >= 1
     /\ l_state.pos <= l_state.len /\ l_state.len <= l_state.buflen)
        => /\ ~refreshSingleLine(World, TRUE).ub
           /\ refreshSingleLine(World, TRUE).l = l_state
           /\ l_state.pos - ScrolledOff(Len(l_state.prompt), l_state.pos, l_state.cols) >= 0
           /\ l_state.pos - ScrolledOff(Len(l_state.prompt), l_state.pos, l_state.cols)
                <= Shown(Len(l_state.prompt),
                         l_state.len - ScrolledOff(Len(l_state.prompt), l_state.pos, l_state.cols),
                         l_state.cols)
           /\ Len(l_state.prompt) + l_state.pos
                - ScrolledOff(Len(l_state.prompt), l_state.pos, l_state.cols) < l_state.cols
           /\ Len(l_state.prompt)
                + Shown(Len(l_state.prompt),
                        l_state.len - ScrolledOff(Len(l_state.prompt), l_state.pos, l_state.cols),
                        l_state.cols) <= l_state.cols

C35_DumbCommitIsString ==
    (~ub /\ ev = "commit" /\ ~l_state.smart_term_connected /\ hostbuflen >= 2)
        => /\ ret < hostbuflen
           /\ HasNul(l_state.buf)
           /\ StrLen(l_state.buf) = ret

(***************************************************************************)
(* C36.  Delete-previous-word removes the bytes between an offset p and    *)
(* the cursor: a run of bytes that are not spaces followed by a run of     *)
(* spaces, the first run reaching back to the start of the line or to a    *)
(* space.  The bytes left of p and the bytes from the old cursor on are    *)
(* kept in order, len goes down by the number of bytes removed, pos is p   *)
(* and buf[len] = 0.  (Smart terminal wider than the prompt, line well     *)
(* formed: pos <= len < capacity, buf[len] = 0.)                           *)
(***************************************************************************)
\* e: the state after linenoiseEditDeletePrevWord
WordDeleted(e) ==
    /\ ~e.ub
    /\ e.l.pos <= l_state.pos
    /\ e.l.len = l_state.len - (l_state.pos - e.l.pos)
    /\ Bytes(e.l.buf, 0, e.l.pos) = Bytes(l_state.buf, 0, e.l.pos)
    /\ Bytes(e.l.buf, e.l.pos, e.l.len - e.l.pos)
         = Bytes(l_state.buf, l_state.pos, l_state.len - l_state.pos)
    /\ BufAt(e.l.buf, e.l.len) = NUL
    /\ \E q \in e.l.pos..l_state.pos :
          /\ \A i \in e.l.pos..(q - 1) : BufAt(l_state.buf, i) # SPACE
          /\ \A i \in q..(l_state.pos - 1) : BufAt(l_state.buf, i) = SPACE
          /\ e.l.pos = 0 \/ (BufAt(l_state.buf, e.l.pos - 1) = SPACE /\ q > e.l.pos)

C36_DeletePrevWord ==
    (/\ ~ub /\ l_state.mode = "ln_read_regular" /\ l_state.smart_term_connected
     /\ l_state.pos <= l_state.len /\ l_state.len < Len(l_state.buf)
     /\ BufAt(l_state.buf, l_state.len) = NUL /\ l_state.cols > Len(l_state.prompt))
        => WordDeleted(linenoiseEditDeletePrevWord(World))

\* the line is a word and a space, the cursor is at its end: both are removed
C36_WordAndSpaceRemoved ==
    /\ ~ub /\ l_state.mode = "ln_read_regular" /\ l_state.smart_term_connected
    /\ l_state.len = 2 /\ l_state.pos = 2
    /\ CStr(l_state.buf) = <<ChA, SPACE>>
    /\ linenoiseEditDeletePrevWord(World).l.len = 0
    /\ linenoiseEditDeletePrevWord(World).l.pos = 0
    /\ CStr(linenoiseEditDeletePrevWord(World).l.buf) = <<>>

(***************************************************************************)
(* C37.  Ctrl-T with 0 < pos < len swaps buf[pos-1] and buf[pos], moves    *)
(* the cursor one to the right only if pos < len - 1, and leaves len and   *)
(* every other byte alone; with pos = 0 or pos = len it changes nothing.   *)
(* (Smart terminal wider than the prompt, line well formed.)               *)
(***************************************************************************)
\* e: the state after Ctrl-T
Transposed(e) ==
    /\ ~e.ub
    /\ e.l.len = l_state.len
    /\ IF 0 < l_state.pos /\ l_state.pos < l_state.len
       THEN /\ e.l.pos = IF l_state.pos < l_state.len - 1 THEN l_state.pos + 1
                         ELSE l_state.pos
            /\ \A i \in 0..(Len(l_state.buf) - 1) :
                  BufAt(e.l.buf, i)
                    = IF i = l_state.pos - 1 THEN BufAt(l_state.buf, l_state.pos)
                      ELSE IF i = l_state.pos THEN BufAt(l_state.buf, l_state.pos - 1)
                      ELSE BufAt(l_state.buf, i)
       ELSE e.l.pos = l_state.pos /\ e.l.buf = l_state.buf

C37_Transpose ==
    (/\ ~ub /\ l_state.mode = "ln_read_regular" /\ l_state.smart_term_connected
     /\ l_state.pos <= l_state.len /\ l_state.len < Len(l_state.buf)
     /\ BufAt(l_state.buf, l_state.len) = NUL /\ l_state.cols > Len(l_state.prompt))
        => Transposed(lnHandleCharacter(World, CTRL_T, <<>>))

\* the cursor is on the second of three bytes: Ctrl-T swaps the first two and moves on
C37_SwappedAndAdvanced ==
    /\ ~ub /\ l_state.mode = "ln_read_regular" /\ l_state.smart_term_connected
    /\ l_state.len = 3 /\ l_state.pos = 1
    /\ CStr(l_state.buf) = <<ChA, SPACE, ChA>>
    /\ lnHandleCharacter(World, CTRL_T, <<>>).l.pos = 2
    /\ CStr(lnHandleCharacter(World, CTRL_T, <<>>).l.buf) = <<SPACE, ChA, ChA>>

(***************************************************************************)
(* C38.  Inserting a byte b at the cursor when len < capacity - 1 gives    *)
(* the line old[0..pos) b old[pos..len), len + 1 and pos + 1, with         *)
(* buf[len] = 0; when len = capacity - 1 buffer, len and pos stay as they  *)
(* are.  (Smart terminal wider than the prompt, line well formed.)         *)
(***************************************************************************)
\* e: the state after linenoiseEditInsert(b)
Inserted(e, b) ==
    /\ ~e.ub
    /\ IF l_state.len < hostbuflen - 1
       THEN /\ e.l.len = l_state.len + 1
            /\ e.l.pos = l_state.pos + 1
            /\ Bytes(e.l.buf, 0, e.l.len)
                 = Bytes(l_state.buf, 0, l_state.pos) \o <<b>>
                     \o Bytes(l_state.buf, l_state.pos, l_state.len - l_state.pos)
            /\ BufAt(e.l.buf, e.l.len) = NUL
       ELSE e.l.len = l_state.len /\ e.l.pos = l_state.pos /\ e.l.buf = l_state.buf

C38_Insert ==
    (/\ ~ub /\ l_state.mode = "ln_read_regular" /\ l_state.smart_term_connected
     /\ l_state.pos <= l_state.len /\ l_state.len < hostbuflen
     /\ BufAt(l_state.buf, l_state.len) = NUL /\ l_state.cols > Len(l_state.prompt))
        => \A b \in {ChA, ChB, SPACE} : Inserted(linenoiseEditInsert(World, b), b)

\* a byte goes in between the two bytes of the line, and the line has room for it
C38_InsertedInTheMiddle ==
    /\ ~ub /\ l_state.mode = "ln_read_regular" /\ l_state.smart_term_connected
    /\ hostbuflen = WordBufLen /\ l_state.len = 2 /\ l_state.pos = 1
    /\ CStr(l_state.buf) = <<ChA, SPACE>>
    /\ CStr(linenoiseEditInsert(World, ChA).l.buf) = <<ChA, ChA, SPACE>>
    /\ linenoiseEditInsert(World, ChA).l.pos = 2

(***************************************************************************)
(* C39.  On a smart terminal a commit that returns n leaves a C string of  *)
(* length n in the buffer, whatever bytes were typed: no zero byte before  *)
(* offset n and a zero byte at offset n.                                   *)
(***************************************************************************)
C39_CommittedIsCString ==
    (~ub /\ ev = "commit" /\ l_state.smart_term_connected)
        => /\ HasNul(l_state.buf)
           /\ StrLen(l_state.buf) = ret

(***************************************************************************)
(* Hints.                                                                  *)
(***************************************************************************)
\* the bytes of template t that are shown when n bytes of it fit and the placeholder
\* with the zero-based index idx is the highlighted one: the highlighted span runs
\* from the byte after the placeholder's '[' to the next ' ' or ']' (or the end of t);
\* with no such placeholder, or an empty span, the n bytes are shown plain
HintShown(t, idx, n) ==
    LET opens == {i \in 1..Len(t) : t[i] = ChLBracket /\ Cardinality({j \in 1..(i - 1) : t[j] = ChLBracket}) = idx}
        s == IF opens = {} THEN Len(t) ELSE CHOOSE i \in opens : TRUE
        stops == {j \in (s + 1)..Len(t) : t[j] \in {SPACE, ChRBracket}}
        e == IF stops = {} THEN Len(t) ELSE (CHOOSE j \in stops : \A k \in stops : j <= k) - 1
    IN  IF s = e THEN Bytes(t, 0, n)
        ELSE Bytes(t, 0, Min(n, s)) \o HintColor(55)
                 \o Bytes(t, Min(n, s), Min(n, e) - Min(n, s)) \o HintColor(Ch0)
                 \o Bytes(t, Min(n, e), n - Min(n, e))

\* C40 as stated: with k >= 1 spaces in the line, the placeholder of the args template
\* with the zero-based index k is highlighted, within the first min(length of the
\* template, available columns) bytes of the template
C40_HighlightsIndexSpaces ==
    (~ub /\ l_state.mode \in SessionModes /\ l_state.smart_term_connected
        /\ l_state.len <= l_state.buflen
        /\ linenoise_hints(CStr(l_state.buf)) # <<>>
        /\ l_state.cols - (Len(l_state.prompt) + l_state.len + 1) > 0)
        => refreshShowHints(World, Len(l_state.prompt))
               = <<SPACE>> \o HintColor(Ch0)
                   \o HintShown(linenoise_hints(CStr(l_state.buf)),
                                Cardinality({i \in 1..StrLen(l_state.buf) : l_state.buf[i] = SPACE}),
                                Min(Len(linenoise_hints(CStr(l_state.buf))),
                                    l_state.cols - (Len(l_state.prompt) + l_state.len + 1)))
                   \o (IF l_state.cols - (Len(l_state.prompt) + l_state.len + 1)
                            > Len(linenoise_hints(CStr(l_state.buf)))
                       THEN <<SPACE>> ELSE <<>>)
                   \o PROMPT_TLR

\* C40, amended: with k >= 1 spaces in the line, the hint renderer highlights in reverse
\* video the placeholder of the args template with the zero-based index k - 1 (the k-th
\* one), as far as it lies within the first n = min(length of the template, available
\* columns) bytes of the template, and nothing when the template has no k-th
\* placeholder; with or without highlighting it emits exactly the first n bytes of the
\* template in order
C40_HighlightsArgumentBeingTyped ==
    (~ub /\ l_state.mode \in SessionModes /\ l_state.smart_term_connected
        /\ l_state.len <= l_state.buflen
        /\ linenoise_hints(CStr(l_state.buf)) # <<>>
        /\ l_state.cols - (Len(l_state.prompt) + l_state.len + 1) > 0)
        => /\ refreshShowHints(World, Len(l_state.prompt))
                  = <<SPACE>> \o HintColor(Ch0)
                      \o HintShown(linenoise_hints(CStr(l_state.buf)),
                                   Cardinality({i \in 1..StrLen(l_state.buf) : l_state.buf[i] = SPACE}) - 1,
                                   Min(Len(linenoise_hints(CStr(l_state.buf))),
                                       l_state.cols - (Len(l_state.prompt) + l_state.len + 1)))
                      \o (IF l_state.cols - (Len(l_state.prompt) + l_state.len + 1)
                               > Len(linenoise_hints(CStr(l_state.buf)))
                          THEN <<SPACE>> ELSE <<>>)
                      \o PROMPT_TLR
           /\ \E a \in 0..Len(linenoise_hints(CStr(l_state.buf))) :
                \E b \in a..Len(linenoise_hints(CStr(l_state.buf))) :
                  \E n \in {Min(Len(linenoise_hints(CStr(l_state.buf))),
                                l_state.cols - (Len(l_state.prompt) + l_state.len + 1))} :
                    ShowHintArgs(linenoise_hints(CStr(l_state.buf)),
                                 Cardinality({i \in 1..StrLen(l_state.buf) : l_state.buf[i] = SPACE}), n)
                        \in {Bytes(linenoise_hints(CStr(l_state.buf)), 0, n),
                             Bytes(linenoise_hints(CStr(l_state.buf)), 0, Min(n, a))
                                 \o HintColor(55)
                                 \o Bytes(linenoise_hints(CStr(l_state.buf)), Min(n, a), Min(n, b) - Min(n, a))
                                 \o HintColor(Ch0)
                                 \o Bytes(linenoise_hints(CStr(l_state.buf)), Min(n, b), n - Min(n, b))}

\* two spaces typed: the redraw has put the second placeholder's text in reverse video
C40_SecondPlaceholderHighlighted ==
    /\ ~ub /\ l_state.mode = "ln_read_regular" /\ entry = "ln_read_regular"
    /\ CStr(l_state.buf) = <<SPACE, SPACE>>
    /\ \E i \in 1..(Len(out) - 20) :
         SubSeq(out, i, i + 20) = HintColor(55) \o <<ChB>> \o HintColor(Ch0)

====
